---- MODULE Spec2Model ----
(***************************************************************************)
(* A model of the tokenization pipeline of tokenizer.cpp                   *)
(* (src/src/tokenizer.cpp, lines 1..1420): the byte alphabet, the pipeline *)
(* stages, the three models (BPE, WordPiece, Unigram), the loader and the  *)
(* facade PreTrainedTokenizer.                                             *)
(*                                                                         *)
(* A std::string is a sequence of bytes (naturals 0..255).  TLA+ sequences *)
(* are indexed from 1; the operators below that take a byte offset take    *)
(* the 0-based offset of the code and read s[off + 1].                     *)
(***************************************************************************)
EXTENDS Integers, Sequences, FiniteSets, TLC

VARIABLES
    model_,              \* Impl::model_            (the model stage, or absent)
    normalizer_,         \* Impl::normalizer_
    pre_tokenizer_,      \* Impl::pre_tokenizer_
    decoder_,            \* Impl::decoder_
    added_tokens_,       \* Impl::added_tokens_     (sequence of AddedToken)
    added_tokens_regex_, \* Impl::added_tokens_regex_ (the alternatives, in order)
    special_tokens_,     \* Impl::special_tokens_   (pad, bos, eos, unk)
    cache_,              \* BPEModel::cache_        (fragment -> ids)
    config,              \* the document load_from_json was given (null before)
    call                 \* the last public call: its name, arguments and result

vars == <<model_, normalizer_, pre_tokenizer_, decoder_, added_tokens_,
          added_tokens_regex_, special_tokens_, cache_, config, call>>

tokenizer == <<model_, normalizer_, pre_tokenizer_, decoder_, added_tokens_,
               added_tokens_regex_, special_tokens_, config>>

----------------------------------------------------------------------------
(* Generic helpers on sequences and finite maps                            *)

Range(f) == {f[x] : x \in DOMAIN f}

\* std::string::substr(pos, len) with a 0-based pos.
substr(s, pos, len) == SubSeq(s, pos + 1, pos + len)

\* The strings over alphabet A of length 0..n.
BoundedSeq(A, n) == UNION {[1..k -> A] : k \in 0..n}

\* m[k] = v of a std::map / std::unordered_map.
MapPut(m, k, v) == [x \in (DOMAIN m) \cup {k} |-> IF x = k THEN v ELSE m[x]]

EmptyMap == [x \in {} |-> 0]

RECURSIVE Concat(_)
Concat(ss) == IF ss = <<>> THEN <<>> ELSE Head(ss) \o Concat(Tail(ss))

----------------------------------------------------------------------------
(* UTF-8                                                                   *)

utf_cont(b) == b >= 128 /\ b <= 191

\* utf8proc_iterate(ptr + off, len - off, &cp): the byte length of the code
\* point that starts at offset off, or -1 (UTF8PROC_ERROR_INVALIDUTF8), or 0
\* when no byte is left.
utf8proc_iterate(s, off) ==
    LET n  == Len(s) - off
        uc == s[off + 1]
    IN  IF n <= 0 THEN 0
        ELSE IF uc < 128 THEN 1
        ELSE IF uc < 194 \/ uc > 244 THEN -1
        ELSE IF uc < 224 THEN
            IF n < 2 \/ ~utf_cont(s[off + 2]) THEN -1 ELSE 2
        ELSE IF uc < 240 THEN
            IF n < 3 \/ ~utf_cont(s[off + 2]) \/ ~utf_cont(s[off + 3]) THEN -1
            ELSE IF uc = 237 /\ s[off + 2] > 159 THEN -1
            ELSE IF ((uc % 16) * 4096) + ((s[off + 2] % 64) * 64) + (s[off + 3] % 64) < 2048
                 THEN -1
            ELSE 3
        ELSE
            IF n < 4 \/ ~utf_cont(s[off + 2]) \/ ~utf_cont(s[off + 3])
                     \/ ~utf_cont(s[off + 4]) THEN -1
            ELSE IF uc = 240 /\ s[off + 2] < 144 THEN -1
            ELSE IF uc = 244 /\ s[off + 2] > 143 THEN -1
            ELSE 4

----------------------------------------------------------------------------
(* 4.1 The byte alphabet                                                   *)

\* The lambda u2u of create_bytes_char_map: the UTF-8 bytes of code point cp.
u2u(cp) ==
    IF cp <= 127 THEN <<cp>>
    ELSE IF cp <= 2047 THEN <<192 + (cp \div 64), 128 + (cp % 64)>>
    ELSE IF cp <= 65535 THEN
        <<224 + (cp \div 4096), 128 + ((cp \div 64) % 64), 128 + (cp % 64)>>
    ELSE <<>>

\* The three loops that map the printable bytes to themselves.
printable_bytes == (33..126) \cup (161..172) \cup (174..255)

\* A counter that is never incremented: every byte the three loops left out
\* would get code point 256.
fill_count_stuck(b) == 0

\* The counter n of the last loop when it reaches byte b: the number of
\* bytes before b that the three loops above left out.
fill_count(b) == Cardinality({c \in 0..(b - 1) : c \notin printable_bytes})

\* The table returned: the printable bytes map to themselves, and the last
\* loop gives every other byte the code point 256 + n++.
create_bytes_char_map ==
    [b \in 0..255 |-> IF b \in printable_bytes THEN u2u(b) ELSE u2u(256 + fill_count(b))]

\* The table bm of ByteLevelDecoder::decode: m[p.second] = p.first for every
\* pair of the forward table.  Were two bytes mapped to one string, the entry
\* kept would depend on the iteration order of the unordered_map.
ByteLevelDecoder_bm ==
    [s \in Range(create_bytes_char_map) |->
        CHOOSE b \in DOMAIN create_bytes_char_map : create_bytes_char_map[b] = s]

\* The remapping loop of ByteLevelPreTokenizer::pre_tokenize (and of
\* BPEModel::tokenize): out += byte_map[b] for every byte of s.
RECURSIVE byte_level_remap(_)
byte_level_remap(s) ==
    IF s = <<>> THEN <<>>
    ELSE create_bytes_char_map[Head(s)] \o byte_level_remap(Tail(s))

\* ByteLevelDecoder::decode on one token, from byte offset i.
RECURSIVE ByteLevelDecoder_token(_, _)
ByteLevelDecoder_token(t, i) ==
    IF i >= Len(t) THEN <<>>
    ELSE LET r == utf8proc_iterate(t, i) IN
         IF r > 0 THEN
            LET ch == substr(t, i, r) IN
            (IF ch \in DOMAIN ByteLevelDecoder_bm
                THEN <<ByteLevelDecoder_bm[ch]>> ELSE ch)
            \o ByteLevelDecoder_token(t, i + r)
         ELSE <<t[i + 1]>> \o ByteLevelDecoder_token(t, i + 1)

\* ByteLevelDecoder::decode on the token list.
ByteLevelDecoder_decode(tokens) ==
    [k \in 1..Len(tokens) |-> ByteLevelDecoder_token(tokens[k], 0)]

----------------------------------------------------------------------------
(* std::string searching                                                   *)

\* Whether pat occurs in s at 0-based offset p.
occurs_at(s, pat, p) ==
    p + Len(pat) <= Len(s) /\ substr(s, p, Len(pat)) = pat

\* std::string::find(pat, pos): the least offset >= pos where pat occurs, or
\* -1 for npos.
find(s, pat, pos) ==
    LET hits == {p \in pos..(Len(s) - Len(pat)) : occurs_at(s, pat, p)}
    IN  IF hits = {} THEN -1 ELSE CHOOSE p \in hits : \A q \in hits : p <= q

\* std::string::rfind(pat): the greatest offset where pat occurs, or -1.
rfind(s, pat) ==
    LET hits == {p \in 0..(Len(s) - Len(pat)) : occurs_at(s, pat, p)}
    IN  IF hits = {} THEN -1 ELSE CHOOSE p \in hits : \A q \in hits : p >= q

\* std::string::replace(pos, len, content).
replace(s, pos, len, content) ==
    SubSeq(s, 1, pos) \o content \o SubSeq(s, pos + len + 1, Len(s))

----------------------------------------------------------------------------
(* Character classes of the Unicode property database, on ASCII.  The      *)
(* database (utf8proc) and the regex engine (Oniguruma) are external; the  *)
(* inputs of this model are ASCII and UTF-8 strings whose non-ASCII code   *)
(* points are letters of category Lo/Sm, which no stage below changes.     *)

is_ascii_space(b) == b = 32 \/ (b >= 9 /\ b <= 13)       \* isspace, and \s
is_ascii_letter(b) == (b >= 65 /\ b <= 90) \/ (b >= 97 /\ b <= 122)
is_ascii_digit(b) == b >= 48 /\ b <= 57
is_ascii_control(b) == b < 32 \/ b = 127                 \* category Cc
is_ascii_punct(b) == (b >= 33 /\ b <= 47) \/ (b >= 58 /\ b <= 64)
                     \/ (b >= 91 /\ b <= 96) \/ (b >= 123 /\ b <= 126)
utf8proc_tolower(b) == IF b >= 65 /\ b <= 90 THEN b + 32 ELSE b

----------------------------------------------------------------------------
(* 4.2 Normalizers.  A stage object is a record tagged by kind; nullptr    *)
(* is the record Nullptr.                                                  *)

Nullptr == [kind |-> "nullptr"]

\* NFKCNormalizer::normalize.  utf8proc_map reads text as a C string, up to
\* its first NUL, and fails on an invalid byte, and then text is returned as
\* it is.  The strings normalized here hold no character that NFKC rewrites
\* and no pair that it composes, so the mapping of a valid string is that
\* string up to the NUL.
NFKCNormalizer_normalize(text) ==
    LET nul  == {k \in 1..Len(text) : text[k] = 0}
        head == IF nul = {} THEN text
                ELSE SubSeq(text, 1, (CHOOSE k \in nul : \A l \in nul : k <= l) - 1)
        RECURSIVE valid(_)
        valid(off) == \/ off >= Len(head)
                      \/ utf8proc_iterate(head, off) > 0
                         /\ valid(off + utf8proc_iterate(head, off))
    IN  IF valid(0) THEN head ELSE text

PrependNormalizer_normalize(n, text) == n.prepend_ \o text

\* The loop of ReplaceNormalizer::normalize from offset pos.
RECURSIVE replace_loop(_, _, _, _)
replace_loop(out, pos, pattern, content) ==
    LET found == IF pos > Len(out) THEN -1 ELSE find(out, pattern, pos) IN
    IF found = -1 THEN out
    ELSE replace_loop(replace(out, found, Len(pattern), content),
                      found + Len(content), pattern, content)

\* A replacement that leaves out content_: every occurrence is erased.
ReplaceNormalizer_erase(n, text) ==
    IF n.pattern_ = <<>> THEN text
    ELSE replace_loop(text, 0, n.pattern_, <<>>)

ReplaceNormalizer_normalize(n, text) ==
    IF n.pattern_ = <<>> THEN text
    ELSE replace_loop(text, 0, n.pattern_, n.content_)

\* The first loop of BertNormalizer::normalize, from byte offset i.  Of the
\* characters of the inputs, strip_accents_ drops the combining mark U+0301
\* (category Mn) and NUL (the loop over the decomposed C string ends at once).
RECURSIVE bert_clean(_, _, _)
bert_clean(n, text, i) ==
    IF i >= Len(text) THEN <<>>
    ELSE LET r  == utf8proc_iterate(text, i)
             cp == text[i + 1]
             ch == substr(text, i, r)
         IN  IF r <= 0 THEN bert_clean(n, text, i + 1)
             ELSE IF r = 1 /\ n.clean_text_ /\ (cp = 9 \/ cp = 10 \/ cp = 13 \/ cp = 32)
                  THEN <<32>> \o bert_clean(n, text, i + r)
             ELSE IF r = 1 /\ n.clean_text_ /\ (cp = 0 \/ is_ascii_control(cp))
                  THEN bert_clean(n, text, i + r)
             ELSE IF n.strip_accents_ /\ (ch = <<0>> \/ ch = <<204, 129>>)
                  THEN bert_clean(n, text, i + r)
             ELSE ch \o bert_clean(n, text, i + r)

\* The lowercase loop of BertNormalizer::normalize, from byte offset i.
RECURSIVE bert_lower(_, _)
bert_lower(out, i) ==
    IF i >= Len(out) THEN <<>>
    ELSE LET r == utf8proc_iterate(out, i) IN
         IF r <= 0 THEN <<out[i + 1]>> \o bert_lower(out, i + 1)
         ELSE IF r = 1 THEN <<utf8proc_tolower(out[i + 1])>> \o bert_lower(out, i + r)
         ELSE substr(out, i, r) \o bert_lower(out, i + r)

BertNormalizer_normalize(n, text) ==
    LET out == bert_clean(n, text, 0)
    IN  IF n.lowercase_ THEN bert_lower(out, 0) ELSE out

RECURSIVE Normalizer_normalize(_, _)
\* SequenceNormalizer::normalize: out = n->normalize(out) for each, in order.
RECURSIVE SequenceNormalizer_normalize(_, _)
SequenceNormalizer_normalize(ns, text) ==
    IF ns = <<>> THEN text
    ELSE SequenceNormalizer_normalize(Tail(ns), Normalizer_normalize(Head(ns), text))

\* Normalizer::normalize, dispatched on the object's class.
Normalizer_normalize(n, text) ==
    CASE n.kind = "Prepend"  -> PrependNormalizer_normalize(n, text)
      [] n.kind = "Replace"  -> ReplaceNormalizer_normalize(n, text)
      [] n.kind = "Bert"     -> BertNormalizer_normalize(n, text)
      [] n.kind = "NFKC"     -> NFKCNormalizer_normalize(text)
      [] n.kind = "Sequence" -> SequenceNormalizer_normalize(n.normalizers_, text)


----------------------------------------------------------------------------
(* The regex handle.  Oniguruma is external; a compiled pattern is modelled *)
(* by what it matches.  Two patterns occur below: the alternation of        *)
(* escaped literals built for the added tokens, and the fixed GPT-2 pattern *)
(* of ByteLevelPreTokenizer.  An ordered alternation matches, at the        *)
(* leftmost offset where any alternative matches, the first alternative     *)
(* that matches there.                                                      *)

\* Character class at byte offset i: "S" whitespace, "L" letter, "N" number,
\* "O" anything else (every non-ASCII code point of the inputs is U+2581,
\* category So).
char_class(s, i) ==
    LET b == s[i + 1] IN
    IF b >= 128 THEN "O"
    ELSE IF is_ascii_space(b) THEN "S"
    ELSE IF is_ascii_letter(b) THEN "L"
    ELSE IF is_ascii_digit(b) THEN "N"
    ELSE "O"

char_len(s, i) == LET r == utf8proc_iterate(s, i) IN IF r <= 0 THEN 1 ELSE r

\* End offset of the longest run of class c that starts at offset i.
RECURSIVE run_end(_, _, _)
run_end(s, i, c) ==
    IF i < Len(s) /\ char_class(s, i) = c THEN run_end(s, i + char_len(s, i), c) ELSE i

\* The alternatives 's|'t|'re|'ve|'m|'ll|'d in order.
gpt2_contractions ==
    <<<<39, 115>>, <<39, 116>>, <<39, 114, 101>>, <<39, 118, 101>>,
      <<39, 109>>, <<39, 108, 108>>, <<39, 100>>>>

\* " ?\p{X}+" at offset i for class c: the end offset, or -1.
gpt2_opt_space_run(s, i, c) ==
    IF s[i + 1] = 32 /\ i + 1 < Len(s) /\ char_class(s, i + 1) = c
        THEN run_end(s, i + 1, c)
    ELSE IF char_class(s, i) = c THEN run_end(s, i, c)
    ELSE -1

\* The GPT-2 pattern at offset i < Len(s): the end offset of its match
\* there, or -1.
gpt2_match_end(s, i) ==
    LET first_of(cs, l, n, o, e) ==
            IF cs # {} THEN i + Len(gpt2_contractions[CHOOSE k \in cs : \A m \in cs : k <= m])
            ELSE IF l # -1 THEN l
            ELSE IF n # -1 THEN n
            ELSE IF o # -1 THEN o
            ELSE IF e = i THEN -1
            ELSE IF e = Len(s) THEN e              \* \s+(?!\S) up to the end
            ELSE IF e - i >= 2 THEN e - 1          \* \s+(?!\S) gives one back
            ELSE e                                 \* \s+
    IN  first_of({k \in 1..Len(gpt2_contractions) : occurs_at(s, gpt2_contractions[k], i)},
                 gpt2_opt_space_run(s, i, "L"),
                 gpt2_opt_space_run(s, i, "N"),
                 gpt2_opt_space_run(s, i, "O"),
                 run_end(s, i, "S"))

\* The alternation of literals alts at offset i: the end offset, or -1.
literals_match_end(alts, s, i) ==
    LET ks == {k \in 1..Len(alts) : occurs_at(s, alts[k], i)}
    IN  IF ks = {} THEN -1
        ELSE i + Len(alts[CHOOSE k \in ks : \A m \in ks : k <= m])

\* End offset of the longest run of the byte b that starts at offset i.
RECURSIVE byte_run_end(_, _, _)
byte_run_end(s, i, b) ==
    IF i < Len(s) /\ s[i + 1] = b THEN byte_run_end(s, i + 1, b) ELSE i

\* The pattern at offset i < Len(s): the end offset of its match there, or
\* -1.  "spaces" is \s+; "star" is b* for the byte re.byte, which matches
\* at every offset, the empty string where no b stands.
regex_match_end(re, s, i) ==
    CASE re.kind = "literals" -> literals_match_end(re.alts, s, i)
      [] re.kind = "gpt2"     -> gpt2_match_end(s, i)
      [] re.kind = "spaces"   -> IF run_end(s, i, "S") > i THEN run_end(s, i, "S") ELSE -1
      [] re.kind = "star"     -> byte_run_end(s, i, re.byte)

\* OnigRegex::OnigRegex(pattern) for the patterns of the Split stages below:
\* \s+, b*, and a pattern without metacharacter, which is a literal.
OnigRegex_new(pattern) ==
    CASE pattern = <<92, 115, 43>> -> [kind |-> "spaces"]
      [] pattern = <<98, 42>>      -> [kind |-> "star", byte |-> 98]
      [] OTHER                     -> [kind |-> "literals", alts |-> <<pattern>>]

NoMatch == [found |-> FALSE, match_start |-> -1, match_end |-> -1]

\* OnigRegex::search(text, start_offset, text.size(), match_start, match_end).
\* ends[p] is the end offset of the pattern's match at offset p, or -1; the
\* search returns the leftmost offset that has a match.
OnigRegex_search(re, text, start_offset) ==
    LET leftmost(ends) ==
            IF \A p \in DOMAIN ends : ends[p] = -1 THEN NoMatch
            ELSE [found |-> TRUE,
                  match_start |-> CHOOSE q \in DOMAIN ends :
                                      /\ ends[q] # -1
                                      /\ \A r \in DOMAIN ends : ends[r] # -1 => q <= r,
                  match_end |-> ends[CHOOSE q \in DOMAIN ends :
                                         /\ ends[q] # -1
                                         /\ \A r \in DOMAIN ends : ends[r] # -1 => q <= r]]
    IN  leftmost([p \in start_offset..(Len(text) - 1) |-> regex_match_end(re, text, p)])


----------------------------------------------------------------------------
(* 4.3 Pre-tokenizers.  pts.splits is a sequence of strings.               *)

\* The regex loop of ByteLevelPreTokenizer::pre_tokenize on one split, from
\* last_pos: the pre-match slice and the matched slice are both pushed.
RECURSIVE byte_level_split(_, _, _)
byte_level_split(re, s, last_pos) ==
    LET push(m) ==
            IF m.found THEN
               (IF m.match_start > last_pos
                   THEN <<substr(s, last_pos, m.match_start - last_pos)>> ELSE <<>>)
               \o (IF m.match_end > m.match_start
                   THEN <<substr(s, m.match_start, m.match_end - m.match_start)>> ELSE <<>>)
               \o byte_level_split(re, s, IF m.match_start = m.match_end
                                          THEN m.match_end + 1 ELSE m.match_end)
            ELSE <<substr(s, last_pos, Len(s) - last_pos)>>
    IN  IF last_pos >= Len(s) THEN <<>>
        ELSE push(OnigRegex_search(re, s, last_pos))

RECURSIVE byte_level_split_all(_, _)
byte_level_split_all(re, splits) ==
    IF splits = <<>> THEN <<>>
    ELSE byte_level_split(re, Head(splits), 0) \o byte_level_split_all(re, Tail(splits))

ByteLevelPreTokenizer_pre_tokenize(pt, splits) ==
    LET remap(next_splits) ==
            [k \in 1..Len(next_splits) |-> byte_level_remap(next_splits[k])]
    IN  remap(IF pt.use_regex_
                  THEN byte_level_split_all([kind |-> "gpt2"], splits)
                  ELSE splits)

\* The loop of SplitPreTokenizer::pre_tokenize on one split from current_pos.
RECURSIVE split_on(_, _, _)
split_on(pt, s, current_pos) ==
    LET push(m) ==
            IF m.found THEN
               (IF pt.invert_
                   THEN IF m.match_end > m.match_start
                           THEN <<substr(s, m.match_start, m.match_end - m.match_start)>>
                           ELSE <<>>
                   ELSE (IF m.match_start > current_pos
                            THEN <<substr(s, current_pos, m.match_start - current_pos)>>
                            ELSE <<>>)
                        \o (IF pt.behavior_ = "Isolated" /\ m.match_end > m.match_start
                            THEN <<substr(s, m.match_start, m.match_end - m.match_start)>>
                            ELSE <<>>))
               \o split_on(pt, s, IF m.match_start = m.match_end
                                  THEN m.match_end + 1 ELSE m.match_end)
            ELSE <<substr(s, current_pos, Len(s) - current_pos)>>
    IN  IF current_pos >= Len(s) THEN <<>>
        ELSE push(OnigRegex_search(pt.regex_, s, current_pos))

RECURSIVE SplitPreTokenizer_pre_tokenize(_, _)
SplitPreTokenizer_pre_tokenize(pt, splits) ==
    IF splits = <<>> THEN <<>>
    ELSE split_on(pt, Head(splits), 0) \o SplitPreTokenizer_pre_tokenize(pt, Tail(splits))

\* The code-point loop of MetaspacePreTokenizer::pre_tokenize from offset i;
\* an invalid byte ends the loop.
RECURSIVE metaspace_replace(_, _, _)
metaspace_replace(pt, s, i) ==
    IF i >= Len(s) THEN <<>>
    ELSE LET len == utf8proc_iterate(s, i) IN
         IF len <= 0 THEN <<>>
         ELSE (IF substr(s, i, len) = <<32>> THEN pt.replacement_ ELSE substr(s, i, len))
              \o metaspace_replace(pt, s, i + len)

\* A Metaspace stage that puts the space before the first split only.
MetaspacePreTokenizer_first_only(pt, splits) ==
    [k \in 1..Len(splits) |->
        metaspace_replace(pt, IF k = 1 /\ pt.add_prefix_space_ /\ splits[k] # <<>>
                                 /\ splits[k][1] # 32
                              THEN <<32>> \o splits[k] ELSE splits[k], 0)]

MetaspacePreTokenizer_pre_tokenize(pt, splits) ==
    [k \in 1..Len(splits) |->
        LET s == splits[k]
            t == IF pt.add_prefix_space_ /\ s # <<>> /\ s[1] # 32 THEN <<32>> \o s ELSE s
        IN  metaspace_replace(pt, t, 0)]

\* The loop of DigitsPreTokenizer::pre_tokenize on one split from offset i
\* with the accumulated fragment current; an invalid byte ends the loop.
RECURSIVE digits_split(_, _, _, _)
digits_split(pt, s, i, current) ==
    LET len == utf8proc_iterate(s, i) IN
    IF i >= Len(s) \/ len <= 0
        THEN IF current # <<>> THEN <<current>> ELSE <<>>
    ELSE LET c == substr(s, i, len) IN
         IF len = 1 /\ is_ascii_digit(c[1]) /\ pt.individual_digits_
            THEN (IF current # <<>> THEN <<current>> ELSE <<>>) \o <<c>>
                 \o digits_split(pt, s, i + len, <<>>)
         ELSE digits_split(pt, s, i + len, current \o c)

RECURSIVE DigitsPreTokenizer_pre_tokenize(_, _)
DigitsPreTokenizer_pre_tokenize(pt, splits) ==
    IF splits = <<>> THEN <<>>
    ELSE digits_split(pt, Head(splits), 0, <<>>)
         \o DigitsPreTokenizer_pre_tokenize(pt, Tail(splits))

\* The loop of BertPreTokenizer::pre_tokenize on one split from offset i.
RECURSIVE bert_split(_, _, _)
bert_split(s, i, current) ==
    IF i >= Len(s) THEN IF current # <<>> THEN <<current>> ELSE <<>>
    ELSE LET r  == utf8proc_iterate(s, i)
             cp == s[i + 1]
         IN  IF r <= 0 THEN bert_split(s, i + 1, current)
             ELSE IF r = 1 /\ (cp = 32 \/ cp = 9 \/ cp = 10 \/ cp = 13)
                  THEN (IF current # <<>> THEN <<current>> ELSE <<>>)
                       \o bert_split(s, i + r, <<>>)
             ELSE IF r = 1 /\ is_ascii_punct(cp)
                  THEN (IF current # <<>> THEN <<current>> ELSE <<>>) \o <<<<cp>>>>
                       \o bert_split(s, i + r, <<>>)
             ELSE bert_split(s, i + r, current \o substr(s, i, r))

RECURSIVE BertPreTokenizer_pre_tokenize(_)
BertPreTokenizer_pre_tokenize(splits) ==
    IF splits = <<>> THEN <<>>
    ELSE bert_split(Head(splits), 0, <<>>) \o BertPreTokenizer_pre_tokenize(Tail(splits))

RECURSIVE PreTokenizer_pre_tokenize(_, _)
\* SequencePreTokenizer::pre_tokenize: each stage in order on the same pts.
RECURSIVE SequencePreTokenizer_pre_tokenize(_, _)
SequencePreTokenizer_pre_tokenize(pts, splits) ==
    IF pts = <<>> THEN splits
    ELSE SequencePreTokenizer_pre_tokenize(Tail(pts),
                                           PreTokenizer_pre_tokenize(Head(pts), splits))

\* PreTokenizer::pre_tokenize, dispatched on the object's class.
PreTokenizer_pre_tokenize(pt, splits) ==
    CASE pt.kind = "ByteLevel" -> ByteLevelPreTokenizer_pre_tokenize(pt, splits)
      [] pt.kind = "Split"     -> SplitPreTokenizer_pre_tokenize(pt, splits)
      [] pt.kind = "Metaspace" -> MetaspacePreTokenizer_pre_tokenize(pt, splits)
      [] pt.kind = "Digits"    -> DigitsPreTokenizer_pre_tokenize(pt, splits)
      [] pt.kind = "Bert"      -> BertPreTokenizer_pre_tokenize(splits)
      [] pt.kind = "Sequence"  -> SequencePreTokenizer_pre_tokenize(pt.pts_, splits)


----------------------------------------------------------------------------
(* 4.8 Decoders.  A decoder maps the token list to a token list.           *)

\* ReplaceDecoder::decode; the loop is that of ReplaceNormalizer without the
\* empty-pattern guard.
ReplaceDecoder_decode(d, tokens) ==
    [k \in 1..Len(tokens) |-> replace_loop(tokens[k], 0, d.pattern_, d.content_)]

StripDecoder_decode(d, tokens) ==
    IF tokens = <<>> THEN tokens
    ELSE LET t1 == IF d.start_ > 0 /\ tokens[1] # <<>> /\ find(tokens[1], d.content_, 0) = 0
                      THEN [tokens EXCEPT ![1] =
                              substr(tokens[1], Len(d.content_),
                                     Len(tokens[1]) - Len(d.content_))]
                      ELSE tokens
             n   == Len(t1)
             pos == rfind(t1[n], d.content_)
         IN  IF d.stop_ > 0 /\ t1[n] # <<>> /\ pos # -1
                /\ pos + Len(d.content_) = Len(t1[n])
                THEN [t1 EXCEPT ![n] = substr(t1[n], 0, pos)]
                ELSE t1

FuseDecoder_decode(tokens) ==
    IF Len(tokens) <= 1 THEN tokens ELSE <<Concat(tokens)>>

\* The value of an uppercase or lowercase hexadecimal digit, or -1.
hex_value(b) ==
    IF b >= 48 /\ b <= 57 THEN b - 48
    ELSE IF b >= 65 /\ b <= 70 THEN b - 55
    ELSE IF b >= 97 /\ b <= 102 THEN b - 87
    ELSE -1

\* sscanf(t, "<0x%02X>", &b) == 1 after the "<0x" prefix test: one or two
\* hexadecimal digits are read, and what follows them is not looked at.
ByteFallbackDecoder_token(t) ==
    IF Len(t) >= 3 /\ substr(t, 0, 3) = <<60, 48, 120>>
       /\ Len(t) >= 4 /\ hex_value(t[4]) # -1
    THEN IF Len(t) >= 5 /\ hex_value(t[5]) # -1
            THEN <<(hex_value(t[4]) * 16) + hex_value(t[5])>>
            ELSE <<hex_value(t[4])>>
    ELSE t

ByteFallbackDecoder_decode(tokens) ==
    [k \in 1..Len(tokens) |-> ByteFallbackDecoder_token(tokens[k])]

\* The loop of WordPieceDecoder::decode from token i (1-based) with the
\* output so far.
RECURSIVE wordpiece_join(_, _, _, _)
wordpiece_join(d, tokens, i, out) ==
    IF i > Len(tokens) THEN out
    ELSE LET raw        == tokens[i]
             is_suffix  == occurs_at(raw, d.prefix_, 0)
             token      == IF is_suffix
                              THEN substr(raw, Len(d.prefix_), Len(raw) - Len(d.prefix_))
                              ELSE raw
             first_char == IF token = <<>> THEN 0 ELSE token[1]
             \* strchr(".,!?", c) also finds the terminating NUL when c = 0
             basic      == first_char \in {46, 44, 33, 63, 0}
             add_space  == ~is_suffix /\ ~basic
                           /\ (d.cleanup_ =>
                                 /\ first_char # 39
                                 /\ ~(out # <<>> /\ out[Len(out)] = 39))
         IN  IF i = 1 THEN wordpiece_join(d, tokens, i + 1, out \o token)
             ELSE wordpiece_join(d, tokens, i + 1,
                                 out \o (IF add_space THEN <<32>> ELSE <<>>) \o token)

WordPieceDecoder_decode(d, tokens) == <<wordpiece_join(d, tokens, 1, <<>>)>>

\* The loop of MetaspaceDecoder::decode on one token from offset i.
RECURSIVE metaspace_restore(_, _, _)
metaspace_restore(d, t, i) ==
    IF i >= Len(t) THEN <<>>
    ELSE IF SubSeq(t, i + 1, IF i + Len(d.replacement_) <= Len(t)
                             THEN i + Len(d.replacement_) ELSE Len(t)) = d.replacement_
         THEN <<32>> \o metaspace_restore(d, t, i + Len(d.replacement_))
         ELSE <<t[i + 1]>> \o metaspace_restore(d, t, i + 1)

MetaspaceDecoder_decode(d, tokens) ==
    LET ts == [k \in 1..Len(tokens) |-> metaspace_restore(d, tokens[k], 0)]
    IN  IF d.add_prefix_space_ /\ ts # <<>> /\ ts[1] # <<>> /\ ts[1][1] = 32
           THEN [ts EXCEPT ![1] = Tail(ts[1])]
           ELSE ts

RECURSIVE Decoder_decode(_, _)
\* SequenceDecoder::decode: each decoder in order on the same token list.
RECURSIVE SequenceDecoder_decode(_, _)
SequenceDecoder_decode(ds, tokens) ==
    IF ds = <<>> THEN tokens
    ELSE SequenceDecoder_decode(Tail(ds), Decoder_decode(Head(ds), tokens))

\* Decoder::decode, dispatched on the object's class.
Decoder_decode(d, tokens) ==
    CASE d.kind = "Replace"      -> ReplaceDecoder_decode(d, tokens)
      [] d.kind = "ByteFallback" -> ByteFallbackDecoder_decode(tokens)
      [] d.kind = "ByteLevel"    -> ByteLevelDecoder_decode(tokens)
      [] d.kind = "Fuse"         -> FuseDecoder_decode(tokens)
      [] d.kind = "Strip"        -> StripDecoder_decode(d, tokens)
      [] d.kind = "WordPiece"    -> WordPieceDecoder_decode(d, tokens)
      [] d.kind = "Metaspace"    -> MetaspaceDecoder_decode(d, tokens)
      [] d.kind = "Sequence"     -> SequenceDecoder_decode(d.decoders_, tokens)


----------------------------------------------------------------------------
(* 4.4 - 4.6 Models.  A model object is a record tagged by kind; vocab_ and *)
(* id_to_token_ are the two unordered_maps every model keeps.               *)

\* snprintf(buf, "<0x%02X>", b): the byte-fallback token of byte b.
hex_digit(v) == IF v < 10 THEN 48 + v ELSE 55 + v
byte_token(b) == <<60, 48, 120, hex_digit(b \div 16), hex_digit(b % 16), 62>>

\* BPEModel::token_to_id.
BPEModel_token_to_id(m, token) ==
    IF token \in DOMAIN m.vocab_ THEN m.vocab_[token] ELSE -1

\* BPEModel::id_to_token.
BPEModel_id_to_token(m, id) ==
    IF id \in DOMAIN m.id_to_token_ THEN m.id_to_token_[id] ELSE <<>>

\* WordPieceModel::token_to_id and UnigramModel::token_to_id: a miss gives
\* unk_token_id_.
UnkModel_token_to_id(m, token) ==
    IF token \in DOMAIN m.vocab_ THEN m.vocab_[token] ELSE m.unk_token_id_

\* WordPieceModel::id_to_token and UnigramModel::id_to_token: a miss gives
\* unk_token_.
UnkModel_id_to_token(m, id) ==
    IF id \in DOMAIN m.id_to_token_ THEN m.id_to_token_[id] ELSE m.unk_token_

\* Model::token_to_id, dispatched on the object's class.
Model_token_to_id(m, token) ==
    IF m.kind = "BPE" THEN BPEModel_token_to_id(m, token)
    ELSE UnkModel_token_to_id(m, token)

\* Model::id_to_token, dispatched on the object's class.
Model_id_to_token(m, id) ==
    IF m.kind = "BPE" THEN BPEModel_id_to_token(m, id)
    ELSE UnkModel_id_to_token(m, id)

\* ids with the id -1 (a vocabulary miss) left out.
found_ids(ids) == SelectSeq(ids, LAMBDA id : id # -1)

\* Seeding with use_byte_level_: one lookup per byte of text.
bpe_seed_bytes(m, text) ==
    found_ids([k \in 1..Len(text) |->
                  BPEModel_token_to_id(m, create_bytes_char_map[text[k]])])

\* Seeding by code point from offset off; a miss falls back to the
\* <0xHH> token of each byte.
RECURSIVE bpe_seed_code_points(_, _, _)
bpe_seed_code_points(m, text, off) ==
    IF off >= Len(text) THEN <<>>
    ELSE LET ret == utf8proc_iterate(text, off) IN
         IF ret <= 0 THEN
            found_ids(<<BPEModel_token_to_id(m, byte_token(text[off + 1]))>>)
            \o bpe_seed_code_points(m, text, off + 1)
         ELSE LET id == BPEModel_token_to_id(m, substr(text, off, ret)) IN
              (IF id # -1 THEN <<id>>
               ELSE found_ids([i \in 1..ret |->
                        BPEModel_token_to_id(m, byte_token(text[off + i]))]))
              \o bpe_seed_code_points(m, text, off + ret)

\* The scan of the merge loop: the index (1-based) of the leftmost adjacent
\* pair of least rank, or 0 when no adjacent pair has a rank (best == -1).
bpe_best(m, out) ==
    LET ranked == {i \in 1..(Len(out) - 1) : <<out[i], out[i + 1]>> \in DOMAIN m.merges_}
        rank(i) == m.merges_[<<out[i], out[i + 1]>>]
    IN  IF ranked = {} THEN 0
        ELSE CHOOSE i \in ranked :
                \A j \in ranked : rank(i) < rank(j) \/ (rank(i) = rank(j) /\ i <= j)

\* The merge loop of BPEModel::tokenize.
RECURSIVE bpe_merge(_, _)
bpe_merge(m, out) ==
    IF Len(out) <= 1 THEN out
    ELSE LET best == bpe_best(m, out) IN
         IF best = 0 THEN out
         ELSE LET nid == BPEModel_token_to_id(m,
                            BPEModel_id_to_token(m, out[best])
                            \o BPEModel_id_to_token(m, out[best + 1]))
              IN  IF nid = -1 THEN out
                  ELSE bpe_merge(m, SubSeq(out, 1, best - 1) \o <<nid>>
                                    \o SubSeq(out, best + 2, Len(out)))

\* BPEModel::tokenize without the cache: seeding, then the merge loop.
bpe_compute(m, text) ==
    bpe_merge(m, IF m.use_byte_level_ THEN bpe_seed_bytes(m, text)
                 ELSE bpe_seed_code_points(m, text, 0))

\* A store under the first byte of the fragment instead of the fragment.
cache_store_first_byte(cache, text, out) == MapPut(cache, SubSeq(text, 1, 1), out)

\* A store that keeps no earlier entry.
cache_store_alone(cache, text, out) == MapPut(EmptyMap, text, out)

\* cache_[text] = out, the last statement of BPEModel::tokenize.
cache_store(cache, text, out) == MapPut(cache, text, out)

\* BPEModel::tokenize on the cache given: the ids returned and the cache
\* afterwards.
BPEModel_tokenize(m, cache, text) ==
    IF text = <<>> THEN [ids |-> <<>>, cache |-> cache]
    ELSE IF text \in DOMAIN cache THEN [ids |-> cache[text], cache |-> cache]
    ELSE LET out == bpe_compute(m, text)
         IN  [ids |-> out, cache |-> cache_store(cache, text, out)]


\* A match that takes the least end in place of the greatest.
wordpiece_match_shortest(m, text, start) ==
    LET form(end) == (IF start > 0 THEN m.continuing_subword_prefix_ ELSE <<>>)
                     \o substr(text, start, end - start)
        ends == {end \in (start + 1)..Len(text) : form(end) \in DOMAIN m.vocab_}
    IN  IF ends = {} THEN -1 ELSE CHOOSE e \in ends : \A f \in ends : e <= f

\* The greedy match of WordPieceModel::tokenize at start: the greatest end
\* whose slice (with the continuation prefix when start > 0) is in the
\* vocabulary, or -1.
wordpiece_match_end(m, text, start) ==
    LET form(end) == (IF start > 0 THEN m.continuing_subword_prefix_ ELSE <<>>)
                     \o substr(text, start, end - start)
        ends == {end \in (start + 1)..Len(text) : form(end) \in DOMAIN m.vocab_}
    IN  IF ends = {} THEN -1 ELSE CHOOSE e \in ends : \A f \in ends : e >= f

\* The outer loop of WordPieceModel::tokenize from start with the ids so
\* far; is_bad discards them.
RECURSIVE wordpiece_loop(_, _, _, _)
wordpiece_loop(m, text, start, out) ==
    IF start >= Len(text) THEN out
    ELSE LET end == wordpiece_match_end(m, text, start) IN
         IF end = -1 THEN <<m.unk_token_id_>>
         ELSE wordpiece_loop(m, text, end,
                Append(out, m.vocab_[(IF start > 0 THEN m.continuing_subword_prefix_
                                      ELSE <<>>) \o substr(text, start, end - start)]))

\* WordPieceModel::tokenize.
WordPieceModel_tokenize(m, text) ==
    IF text = <<>> THEN <<>>
    ELSE IF Len(text) > m.max_input_chars_per_word_
         THEN IF m.unk_token_id_ # -1 THEN <<m.unk_token_id_>> ELSE <<>>
    ELSE wordpiece_loop(m, text, 0, <<>>)

\* -1e18, the score of a position not reached, and -1e17, the threshold the
\* code compares with; scores are integers here.
unigram_unreached == -1000000
unigram_threshold == -100000

\* The unk score: scores_[unk_token_id_], or -10.0 when that is past the end.
unigram_unk_score(m) ==
    IF m.unk_token_id_ < Len(m.scores_) THEN m.scores_[m.unk_token_id_ + 1] ELSE -10

\* The candidate of the inner loop for the slice [j, i): its id and score, or
\* none.
unigram_candidate(m, text, i, j) ==
    LET sub == substr(text, j, i - j) IN
    IF sub \in DOMAIN m.vocab_
        THEN [some |-> TRUE, id |-> m.vocab_[sub], score |-> m.scores_[m.vocab_[sub] + 1]]
    ELSE IF m.byte_fallback_ /\ i - j = 1
        THEN IF byte_token(text[j + 1]) \in DOMAIN m.vocab_
                THEN [some |-> TRUE, id |-> m.vocab_[byte_token(text[j + 1])],
                      score |-> m.scores_[m.vocab_[byte_token(text[j + 1])] + 1]]
                ELSE [some |-> TRUE, id |-> m.unk_token_id_, score |-> unigram_unk_score(m)]
    ELSE [some |-> FALSE, id |-> -1, score |-> unigram_unreached]

\* The inner loop of the forward pass at i, for j from i - 1 down to
\* start_len; v is the triple of arrays (indexed by position + 1).
RECURSIVE unigram_inner(_, _, _, _, _, _)
unigram_inner(m, text, i, j, start_len, v) ==
    IF j < start_len THEN v
    ELSE LET c == unigram_candidate(m, text, i, j)
             new_score == v.best_scores[j + 1] + c.score
         IN  IF v.best_scores[j + 1] <= unigram_threshold \/ ~c.some
                THEN unigram_inner(m, text, i, j - 1, start_len, v)
             ELSE IF new_score > v.best_scores[i + 1]
                     \/ v.best_scores[i + 1] <= unigram_threshold
                THEN unigram_inner(m, text, i, j - 1, start_len,
                        [best_scores   |-> [v.best_scores EXCEPT ![i + 1] = new_score],
                         best_prev_pos |-> [v.best_prev_pos EXCEPT ![i + 1] = j],
                         best_ids      |-> [v.best_ids EXCEPT ![i + 1] = c.id]])
             ELSE unigram_inner(m, text, i, j - 1, start_len, v)

\* The length of the UTF-8 character that ends at byte position i, as the
\* fallback of the forward pass finds it (1 when none of 1..4 fits).
unigram_char_len(text, i) ==
    LET starts == {k \in 1..4 : i - k >= 0 /\ ~utf_cont(text[i - k + 1])}
        k == CHOOSE x \in starts : \A y \in starts : x <= y
        c == text[i - k + 1]
        expected == IF c >= 240 THEN 4 ELSE IF c >= 224 THEN 3 ELSE IF c >= 192 THEN 2 ELSE 1
    IN  IF starts = {} THEN 1 ELSE IF expected = k THEN k ELSE 1

\* A forward pass without the unk fallback.
unigram_no_fallback(m, text, i, v) == v

\* The unk fallback of the forward pass at a position left unreached.
unigram_fallback(m, text, i, v) ==
    LET cl == unigram_char_len(text, i) IN
    IF v.best_scores[i + 1] <= unigram_threshold
       /\ v.best_scores[i - cl + 1] > unigram_threshold
    THEN [best_scores   |-> [v.best_scores EXCEPT
                               ![i + 1] = v.best_scores[i - cl + 1]
                                          + unigram_unk_score(m)],
          best_prev_pos |-> [v.best_prev_pos EXCEPT ![i + 1] = i - cl],
          best_ids      |-> [v.best_ids EXCEPT ![i + 1] = m.unk_token_id_]]
    ELSE v

\* The forward pass for i, i + 1, ..., n.
RECURSIVE unigram_forward(_, _, _, _)
unigram_forward(m, text, i, v) ==
    IF i > Len(text) THEN v
    ELSE LET start_len == IF i > m.max_token_len_ THEN i - m.max_token_len_ ELSE 0
         IN  unigram_forward(m, text, i + 1,
                unigram_fallback(m, text, i,
                    unigram_inner(m, text, i, i - 1, start_len, v)))

\* The backtrack from cur; out is in reverse order, consecutive unks merged.
RECURSIVE unigram_backtrack(_, _, _, _)
unigram_backtrack(m, v, cur, out) ==
    IF cur <= 0 THEN out
    ELSE LET id == v.best_ids[cur + 1] IN
         unigram_backtrack(m, v, v.best_prev_pos[cur + 1],
            IF out = <<>> \/ id # m.unk_token_id_ \/ out[Len(out)] # m.unk_token_id_
               THEN Append(out, id) ELSE out)

reverse(s) == [k \in 1..Len(s) |-> s[Len(s) + 1 - k]]

\* UnigramModel::tokenize.
UnigramModel_tokenize(m, text) ==
    IF text = <<>> THEN <<>>
    ELSE LET n  == Len(text)
             v0 == [best_scores   |-> [k \in 1..(n + 1) |->
                                          IF k = 1 THEN 0 ELSE unigram_unreached],
                    best_prev_pos |-> [k \in 1..(n + 1) |-> 0],
                    best_ids      |-> [k \in 1..(n + 1) |-> -1]]
             v  == unigram_forward(m, text, 1, v0)
         IN  IF v.best_scores[n + 1] <= unigram_threshold THEN <<>>
             ELSE reverse(unigram_backtrack(m, v, n, <<>>))

\* Model::tokenize, dispatched on the object's class: the ids and the BPE
\* cache afterwards (the other models keep no cache).
Model_tokenize(m, cache, text) ==
    CASE m.kind = "BPE"       -> BPEModel_tokenize(m, cache, text)
      [] m.kind = "WordPiece" -> [ids |-> WordPieceModel_tokenize(m, text), cache |-> cache]
      [] m.kind = "Unigram"   -> [ids |-> UnigramModel_tokenize(m, text), cache |-> cache]


----------------------------------------------------------------------------
(* 4.10 The loader.  A JSON object is a record; j.contains(k) is            *)
(* k \in DOMAIN j; JSON null is the record json_null; a JSON string is a    *)
(* byte sequence, except the type tags, which are TLA+ strings.             *)

json_null == [is_null |-> TRUE]
is_null(j) == "is_null" \in DOMAIN j
contains(j, k) == ~is_null(j) /\ k \in DOMAIN j
value(j, k, default) == IF contains(j, k) THEN j[k] ELSE default

\* The inverse table built beside vocab_: id_to_token_[id] = token for every
\* entry.  (When two tokens share an id the entry kept is the one written
\* last; the vocabularies loaded below give every token its own id.)
inverse_of(vocab) ==
    [id \in Range(vocab) |-> CHOOSE t \in DOMAIN vocab : vocab[t] = id]

\* The merges loop of load_from_json (lines 1104-1119): an entry whose
\* operands are both in the vocabulary gets the next rank.
RECURSIVE load_merges(_, _, _, _)
load_merges(vocab, items, merges, rank) ==
    IF items = <<>> THEN merges
    ELSE LET s1 == Head(items)[1]
             s2 == Head(items)[2]
         IN  IF s1 # <<>> /\ s2 # <<>> /\ s1 \in DOMAIN vocab /\ s2 \in DOMAIN vocab
                THEN load_merges(vocab, Tail(items),
                                 MapPut(merges, <<vocab[s1], vocab[s2]>>, rank), rank + 1)
                ELSE load_merges(vocab, Tail(items), merges, rank)

\* The lambda check_bl: a ByteLevel component at the top of c or among the
\* children under any of the three list keys.
check_bl(c) ==
    /\ ~is_null(c)
    /\ \/ value(c, "type", "") = "ByteLevel"
       \/ \E key \in {"pretokenizers", "processors", "decoders"} :
             /\ contains(c, key)
             /\ \E k \in 1..Len(c[key]) : value(c[key][k], "type", "") = "ByteLevel"

\* A test that sees a ByteLevel pre-tokenizer only when it is not in a
\* Sequence.
pt_has_byte_level_top(j) ==
    /\ contains(j, "pre_tokenizer") /\ ~is_null(j.pre_tokenizer)
    /\ value(j.pre_tokenizer, "type", "") = "ByteLevel"

\* pt_has_byte_level (lines 1144-1151).
pt_has_byte_level(j) ==
    /\ contains(j, "pre_tokenizer") /\ ~is_null(j.pre_tokenizer)
    /\ LET pt == j.pre_tokenizer IN
       \/ value(pt, "type", "") = "ByteLevel"
       \/ /\ value(pt, "type", "") = "Sequence" /\ contains(pt, "pretokenizers")
          /\ \E k \in 1..Len(pt.pretokenizers) :
                value(pt.pretokenizers[k], "type", "") = "ByteLevel"

\* The BPE branch of load_from_json and the constructor BPEModel::BPEModel;
\* byte_fallback is read and passed on, and the constructor drops it.
load_bpe(j) ==
    LET vocab == j.model.vocab
        use_byte_level == \/ check_bl(value(j, "pre_tokenizer", json_null))
                          \/ check_bl(value(j, "post_processor", json_null))
                          \/ check_bl(value(j, "decoder", json_null))
    IN  [kind            |-> "BPE",
         use_byte_level_ |-> use_byte_level /\ ~pt_has_byte_level(j),
         vocab_          |-> vocab,
         id_to_token_    |-> inverse_of(vocab),
         merges_         |-> IF contains(j.model, "merges")
                                THEN load_merges(vocab, j.model.merges, EmptyMap, 0)
                                ELSE EmptyMap]

\* The WordPiece branch of load_from_json and WordPieceModel::load.
load_wordpiece(j) ==
    LET unk   == value(j.model, "unk_token", <<91, 85, 78, 75, 93>>)
        vocab == IF contains(j.model, "vocab") THEN j.model.vocab ELSE EmptyMap
    IN  [kind                      |-> "WordPiece",
         unk_token_                |-> unk,
         continuing_subword_prefix_ |-> value(j.model, "continuing_subword_prefix",
                                              <<35, 35>>),
         max_input_chars_per_word_ |-> value(j.model, "max_input_chars_per_word", 100),
         vocab_                    |-> vocab,
         id_to_token_              |-> inverse_of(vocab),
         unk_token_id_             |-> IF unk \in DOMAIN vocab THEN vocab[unk] ELSE -1]

max_len(lens) == IF lens = {} THEN 0 ELSE CHOOSE n \in lens : \A k \in lens : n >= k

\* The Unigram branch of load_from_json and UnigramModel::load: entry idx of
\* the vocab array gets id idx; a token listed twice keeps its last index.
load_unigram(j) ==
    LET v      == IF contains(j.model, "vocab") THEN j.model.vocab ELSE <<>>
        unk_id == value(j.model, "unk_id", 0)
        tokens == {v[k][1] : k \in 1..Len(v)}
    IN  [kind            |-> "Unigram",
         unk_token_      |-> IF unk_id >= 0 /\ unk_id < Len(v) THEN v[unk_id + 1][1] ELSE <<>>,
         unk_token_id_   |-> unk_id,
         vocab_          |-> [t \in tokens |->
                                (CHOOSE k \in 1..Len(v) :
                                    v[k][1] = t /\ \A m \in 1..Len(v) : v[m][1] = t => m <= k)
                                - 1],
         id_to_token_    |-> [id \in 0..(Len(v) - 1) |-> v[id + 1][1]],
         scores_         |-> [k \in 1..Len(v) |-> v[k][2]],
         byte_fallback_  |-> value(j.model, "byte_fallback", FALSE),
         max_token_len_  |-> max_len({Len(t) : t \in tokens})]

\* The model section of load_from_json (lines 1067-1156); without a "model"
\* object model_ stays as it was.
load_model(j, old) ==
    IF ~contains(j, "model") THEN old
    ELSE CASE value(j.model, "type", "") = "WordPiece" -> load_wordpiece(j)
           [] value(j.model, "type", "") = "Unigram"   -> load_unigram(j)
           [] OTHER                                     -> load_bpe(j)


\* The children a Sequence keeps: the factory's results that are not null
\* (if (n) norms.push_back(n)), in order.
non_null(stages) == SelectSeq(stages, LAMBDA n : n # Nullptr)

\* The "pattern" of a Replace stage: {String: p} or a bare string p; any
\* other object gives the empty pattern.
replace_pattern(s) ==
    IF ~contains(s, "pattern") THEN <<>>
    ELSE IF contains(s.pattern, "String") THEN s.pattern.String
    ELSE IF contains(s.pattern, "str") THEN s.pattern.str
    ELSE <<>>

\* The lambda create_norm (lines 1158-1193).
create_norm(s) ==
    LET type == value(s, "type", "") IN
    CASE type = "NFKC" \/ type = "NFKD" -> [kind |-> "NFKC"]
      [] type = "Precompiled" ->
            [kind |-> "Sequence",
             normalizers_ |-> <<[kind |-> "NFKC"],
                                [kind |-> "Replace", pattern_ |-> <<226, 128, 141>>,
                                 content_ |-> <<32>>]>>]
      [] type = "Prepend" -> [kind |-> "Prepend", prepend_ |-> value(s, "prepend", <<>>)]
      [] type = "Lowercase" ->
            [kind |-> "Bert", clean_text_ |-> FALSE, handle_chinese_chars_ |-> FALSE,
             strip_accents_ |-> FALSE, lowercase_ |-> TRUE]
      [] type = "StripAccents" ->
            [kind |-> "Bert", clean_text_ |-> FALSE, handle_chinese_chars_ |-> FALSE,
             strip_accents_ |-> TRUE, lowercase_ |-> FALSE]
      [] type = "Replace" ->
            [kind |-> "Replace", pattern_ |-> replace_pattern(s),
             content_ |-> value(s, "content", <<>>)]
      [] type = "BertNormalizer" ->
            [kind |-> "Bert", clean_text_ |-> value(s, "clean_text", TRUE),
             handle_chinese_chars_ |-> value(s, "handle_chinese_chars", TRUE),
             strip_accents_ |-> value(s, "strip_accents", value(s, "lowercase", TRUE)),
             lowercase_ |-> value(s, "lowercase", TRUE)]
      [] OTHER -> Nullptr

\* The normalizer section of load_from_json (lines 1157-1204).
load_normalizer(j, old) ==
    IF ~contains(j, "normalizer") \/ is_null(j.normalizer) THEN old
    ELSE IF value(j.normalizer, "type", "") = "Sequence"
         THEN [kind |-> "Sequence",
               normalizers_ |-> non_null([k \in 1..Len(j.normalizer.normalizers) |->
                                   create_norm(j.normalizer.normalizers[k])])]
    ELSE create_norm(j.normalizer)

\* The lambda create_dec (lines 1206-1221).
create_dec(s) ==
    LET type == value(s, "type", "") IN
    CASE type = "Replace" ->
            [kind |-> "Replace", pattern_ |-> replace_pattern(s),
             content_ |-> value(s, "content", <<>>)]
      [] type = "ByteFallback" -> [kind |-> "ByteFallback"]
      [] type = "ByteLevel" -> [kind |-> "ByteLevel"]
      [] type = "Fuse" -> [kind |-> "Fuse"]
      [] type = "Strip" ->
            [kind |-> "Strip", content_ |-> value(s, "content", <<>>),
             start_ |-> value(s, "start", 0), stop_ |-> value(s, "stop", 0)]
      [] type = "WordPiece" ->
            [kind |-> "WordPiece", prefix_ |-> value(s, "prefix", <<35, 35>>),
             cleanup_ |-> value(s, "cleanup", TRUE)]
      [] type = "Metaspace" ->
            [kind |-> "Metaspace",
             replacement_ |-> value(s, "replacement", <<226, 150, 129>>),
             add_prefix_space_ |-> value(s, "add_prefix_space", TRUE)]
      [] OTHER -> Nullptr

\* The decoder section of load_from_json (lines 1205-1236): a decoder that
\* is missing or not built defaults to ByteLevelDecoder.
load_decoder(j, old) ==
    LET d == IF ~contains(j, "decoder") \/ is_null(j.decoder) THEN old
             ELSE IF value(j.decoder, "type", "") = "Sequence"
                  THEN [kind |-> "Sequence",
                        decoders_ |-> non_null([k \in 1..Len(j.decoder.decoders) |->
                                    create_dec(j.decoder.decoders[k])])]
             ELSE create_dec(j.decoder)
    IN  IF d = Nullptr THEN [kind |-> "ByteLevel"] ELSE d

\* The lambda create_pt (lines 1239-1263); the pattern of a Split is an
\* object in the documents below.
create_pt(s) ==
    LET type == value(s, "type", "")
        p    == IF contains(s, "pattern") THEN value(s.pattern, "Regex", <<>>) ELSE <<>>
    IN
    CASE type = "Split" /\ p # <<>> ->
            [kind |-> "Split", regex_ |-> OnigRegex_new(p),
             invert_ |-> value(s, "invert", FALSE),
             behavior_ |-> value(s, "behavior", "Isolated")]
      [] type = "WhitespaceSplit" ->
            [kind |-> "Split", regex_ |-> OnigRegex_new(<<92, 115, 43>>),
             invert_ |-> FALSE, behavior_ |-> "Removed"]
      [] type = "Metaspace" ->
            [kind |-> "Metaspace", replacement_ |-> value(s, "str_rep", <<226, 150, 129>>),
             add_prefix_space_ |-> value(s, "add_prefix_space", TRUE)]
      [] type = "ByteLevel" ->
            [kind |-> "ByteLevel", use_regex_ |-> value(s, "use_regex", TRUE)]
      [] type = "Digits" ->
            [kind |-> "Digits", individual_digits_ |-> value(s, "individual_digits", FALSE)]
      [] type = "BertPreTokenizer" -> [kind |-> "Bert"]
      [] OTHER -> Nullptr

\* The pre_tokenizer section of load_from_json (lines 1237-1273).
load_pre_tokenizer(j, old) ==
    IF ~contains(j, "pre_tokenizer") \/ is_null(j.pre_tokenizer) THEN old
    ELSE IF value(j.pre_tokenizer, "type", "") = "Sequence"
            /\ contains(j.pre_tokenizer, "pretokenizers")
         THEN [kind |-> "Sequence",
               pts_ |-> non_null([k \in 1..Len(j.pre_tokenizer.pretokenizers) |->
                            create_pt(j.pre_tokenizer.pretokenizers[k])])]
    ELSE create_pt(j.pre_tokenizer)


\* The literals the loader recognises as special roles (lines 1300-1303):
\* [PAD] <pad>; [BOS] <s> <bos>; [EOS] </s> <eos>; [UNK] <unk>.
role_literals ==
    [pad |-> {<<91, 80, 65, 68, 93>>, <<60, 112, 97, 100, 62>>},
     bos |-> {<<91, 66, 79, 83, 93>>, <<60, 115, 62>>, <<60, 98, 111, 115, 62>>},
     eos |-> {<<91, 69, 79, 83, 93>>, <<60, 47, 115, 62>>, <<60, 101, 111, 115, 62>>},
     unk |-> {<<91, 85, 78, 75, 93>>, <<60, 117, 110, 107, 62>>}]

no_special_tokens == [pad |-> -1, bos |-> -1, eos |-> -1, unk |-> -1]

\* Line 1304: an added token is written into the vocabulary of a BPE model,
\* and of no other model.
add_to_bpe(m, c, id) ==
    IF m.kind = "BPE"
        THEN [m EXCEPT !.vocab_ = MapPut(m.vocab_, c, id),
                       !.id_to_token_ = MapPut(m.id_to_token_, id, c)]
        ELSE m

\* The body of the added_tokens loop (lines 1291-1305) for one item, on the
\* state st = (added_tokens_, special_tokens_, model_).
add_token(st, item) ==
    LET c  == value(item, "content", <<>>)
        id == value(item, "id", -1)
        sp == st.special_tokens_
    IN  IF c = <<>> \/ id = -1 THEN st
        ELSE [added_tokens_ |->
                 Append(st.added_tokens_,
                        [id |-> id, content |-> c,
                         special |-> value(item, "special", FALSE),
                         lstrip |-> value(item, "lstrip", FALSE),
                         rstrip |-> value(item, "rstrip", FALSE),
                         normalized |-> value(item, "normalized", FALSE)]),
              special_tokens_ |->
                 [pad |-> IF c \in role_literals.pad THEN id ELSE sp.pad,
                  bos |-> IF c \in role_literals.bos THEN id ELSE sp.bos,
                  eos |-> IF c \in role_literals.eos THEN id ELSE sp.eos,
                  unk |-> IF c \in role_literals.unk THEN id ELSE sp.unk],
              model_ |-> add_to_bpe(st.model_, c, id)]

RECURSIVE add_tokens(_, _)
add_tokens(st, items) ==
    IF items = <<>> THEN st ELSE add_tokens(add_token(st, Head(items)), Tail(items))

\* std::sort of the contents by decreasing length (line 1307), as an
\* insertion sort.  The order std::sort gives to contents of one length is
\* unspecified; no search depends on it, since two different literals of one
\* length never match at the same offset.
RECURSIVE sort_by_length(_)
sort_by_length(cs) ==
    IF cs = <<>> THEN <<>>
    ELSE LET rest   == sort_by_length(Tail(cs))
             longer == SelectSeq(rest, LAMBDA x : Len(x) >= Len(Head(cs)))
             others == SelectSeq(rest, LAMBDA x : Len(x) < Len(Head(cs)))
         IN  longer \o <<Head(cs)>> \o others

\* Lines 1306-1310: the regex of the added tokens, or nullptr when there is
\* none.  OnigurumaRegexEscape makes every content a literal.
load_added_tokens_regex(j, cs, old) ==
    IF ~contains(j, "added_tokens") \/ cs = <<>> THEN old
    ELSE [kind |-> "literals", alts |-> sort_by_length(cs)]

\* get_token_content: a string, or the "content" of an object, or "".
get_token_content(v) ==
    IF contains(v, "str") THEN v.str
    ELSE IF contains(v, "content") THEN v.content
    ELSE <<>>

\* PreTrainedTokenizer::token_to_id on the model m.
facade_token_to_id(m, t) == IF m = Nullptr THEN -1 ELSE Model_token_to_id(m, t)

\* PreTrainedTokenizer::id_to_token on the model m.
facade_id_to_token(m, id) == IF m = Nullptr THEN <<>> ELSE Model_id_to_token(m, id)

\* One line of the config_overrides block (lines 1314-1317).
override(co, key, m, old) ==
    IF contains(co, key) THEN facade_token_to_id(m, get_token_content(co[key])) ELSE old

\* Lines 1312-1318.
load_overrides(j, m, sp) ==
    IF ~contains(j, "config_overrides") THEN sp
    ELSE LET co == j.config_overrides IN
         [bos |-> override(co, "bos_token", m, sp.bos),
          eos |-> override(co, "eos_token", m, sp.eos),
          pad |-> override(co, "pad_token", m, sp.pad),
          unk |-> override(co, "unk_token", m, sp.unk)]

\* Impl::load_from_json on the document j: the tokenizer afterwards.
load_from_json(j) ==
    LET m0 == load_model(j, model_)
        st == add_tokens([added_tokens_ |-> added_tokens_,
                          special_tokens_ |-> special_tokens_, model_ |-> m0],
                         value(j, "added_tokens", <<>>))
    IN  [model_ |-> st.model_,
         normalizer_ |-> load_normalizer(j, normalizer_),
         decoder_ |-> load_decoder(j, decoder_),
         pre_tokenizer_ |-> load_pre_tokenizer(j, pre_tokenizer_),
         added_tokens_ |-> st.added_tokens_,
         added_tokens_regex_ |->
            load_added_tokens_regex(j,
                [k \in 1..(Len(st.added_tokens_) - Len(added_tokens_)) |->
                    st.added_tokens_[Len(added_tokens_) + k].content],
                added_tokens_regex_),
         special_tokens_ |-> load_overrides(j, st.model_, st.special_tokens_)]


-----------------------------------------------------------------------------
(* Impl::encode and PreTrainedTokenizer::decode                            *)

\* An lstrip loop that never runs: the prefix keeps its trailing whitespace.
lstrip_end_kept(text, prefix_start, prefix_end) == prefix_end

\* The lstrip loop: prefix_end moved left over trailing whitespace.
RECURSIVE lstrip_end(_, _, _)
lstrip_end(text, prefix_start, prefix_end) ==
    IF prefix_end > prefix_start /\ is_ascii_space(text[prefix_end])
        THEN lstrip_end(text, prefix_start, prefix_end - 1)
        ELSE prefix_end

\* The rstrip loop: next_start moved right over leading whitespace.
RECURSIVE rstrip_start(_, _)
rstrip_start(text, next_start) ==
    IF next_start < Len(text) /\ is_ascii_space(text[next_start + 1])
        THEN rstrip_start(text, next_start + 1)
        ELSE next_start

\* The first added token with the content matched, or nullptr.
find_added_token(match_token) ==
    LET ks == {k \in 1..Len(added_tokens_) : added_tokens_[k].content = match_token}
    IN  IF ks = {} THEN Nullptr
        ELSE added_tokens_[CHOOSE k \in ks : \A l \in ks : k <= l]

\* The dispatcher loop of encode (lines 1003-1033): the units of text from
\* offset last on, each a pair <<string, is an added token>>.
RECURSIVE split_units(_, _)
split_units(text, last) ==
    LET at_match(m) ==
            IF ~m.found THEN << <<substr(text, last, Len(text) - last), FALSE>> >>
            ELSE LET match_token == substr(text, m.match_start, m.match_end - m.match_start)
                     at == find_added_token(match_token)
                     prefix_end == IF at # Nullptr /\ at.lstrip
                                       THEN lstrip_end(text, last, m.match_start)
                                       ELSE m.match_start
                     next_start == IF at # Nullptr /\ at.rstrip
                                       THEN rstrip_start(text, m.match_end)
                                       ELSE m.match_end
                 IN  (IF prefix_end > last
                          THEN << <<substr(text, last, prefix_end - last), FALSE>> >>
                          ELSE <<>>)
                     \o << <<match_token, TRUE>> >>
                     \o split_units(text, next_start)
    IN  IF last >= Len(text) THEN <<>>
        ELSE at_match(IF added_tokens_regex_ = Nullptr THEN NoMatch
                      ELSE OnigRegex_search(added_tokens_regex_, text, last))

\* The loop over pts.splits (lines 1049-1052) on r, the ids collected so far
\* with the cache.  model_->tokenize on an absent model is a null
\* dereference: fault records it, and what the call returns is then undefined.
RECURSIVE tokenize_splits(_, _)
tokenize_splits(splits, r) ==
    LET insert(t) == [ids |-> r.ids \o t.ids, cache |-> t.cache, fault |-> FALSE]
    IN  IF splits = <<>> THEN r
        ELSE IF model_ = Nullptr THEN [r EXCEPT !.fault = TRUE]
        ELSE tokenize_splits(Tail(splits),
                             insert(Model_tokenize(model_, r.cache, Head(splits))))

\* One unit of the loop at lines 1037-1054, on r as above.
encode_unit(unit, r) ==
    LET push_back(id) == IF id # -1 THEN [r EXCEPT !.ids = @ \o <<id>>] ELSE r
        tokenize(normalized) ==
            IF normalized = <<>> THEN r
            ELSE tokenize_splits(
                     IF pre_tokenizer_ # Nullptr
                         THEN PreTokenizer_pre_tokenize(pre_tokenizer_, <<normalized>>)
                         ELSE <<normalized>>,
                     r)
    IN  IF unit[2] THEN push_back(facade_token_to_id(model_, unit[1]))
        ELSE tokenize(IF normalizer_ # Nullptr
                          THEN Normalizer_normalize(normalizer_, unit[1])
                          ELSE unit[1])

RECURSIVE encode_units(_, _)
encode_units(units, r) ==
    IF units = <<>> \/ r.fault THEN r
    ELSE encode_units(Tail(units), encode_unit(Head(units), r))

\* Impl::encode (lines 998-1058) run on the cache given: the ids returned,
\* the cache afterwards, and whether the call dereferenced an absent model.
Impl_encode(text, add_special_tokens, cache) ==
    IF text = <<>> THEN [ids |-> <<>>, cache |-> cache, fault |-> FALSE]
    ELSE [encode_units(split_units(text, 0),
                       [ids |-> <<>>, cache |-> cache, fault |-> FALSE])
             EXCEPT !.ids = (IF add_special_tokens /\ special_tokens_.bos # -1
                                 THEN <<special_tokens_.bos>> ELSE <<>>)
                            \o @
                            \o (IF add_special_tokens /\ special_tokens_.eos # -1
                                    THEN <<special_tokens_.eos>> ELSE <<>>)]

\* A test that leaves out at.special: every added token would be skipped.
is_added_id(id) == \E k \in 1..Len(added_tokens_) : added_tokens_[k].id = id

\* The test of the inner loop of decode (lines 1339-1342).
is_special_id(id) ==
    \E k \in 1..Len(added_tokens_) : added_tokens_[k].id = id /\ added_tokens_[k].special

\* A loop that never looks at skip_special_tokens: every id is looked up.
decode_tokens_unskipped(ids, skip_special_tokens) ==
    SelectSeq([k \in 1..Len(ids) |-> Model_id_to_token(model_, ids[k])],
              LAMBDA t : t # <<>>)

\* The tokens collected by the loop of decode (lines 1336-1346).
RECURSIVE decode_tokens(_, _)
decode_tokens(ids, skip_special_tokens) ==
    IF ids = <<>> THEN <<>>
    ELSE LET rest == decode_tokens(Tail(ids), skip_special_tokens) IN
         IF skip_special_tokens /\ is_special_id(Head(ids)) THEN rest
         ELSE LET t == Model_id_to_token(model_, Head(ids))
              IN  IF t # <<>> THEN <<t>> \o rest ELSE rest

\* PreTrainedTokenizer::decode (lines 1334-1352), for a tokenizer with a model.
PreTrainedTokenizer_decode(ids, skip_special_tokens) ==
    LET tokens == decode_tokens(ids, skip_special_tokens)
    IN  Concat(IF decoder_ # Nullptr THEN Decoder_decode(decoder_, tokens) ELSE tokens)

PreTrainedTokenizer_token_to_id(t) == facade_token_to_id(model_, t)
PreTrainedTokenizer_id_to_token(id) == facade_id_to_token(model_, id)
pad_token_id == special_tokens_.pad
bos_token_id == special_tokens_.bos
eos_token_id == special_tokens_.eos
unk_token_id == special_tokens_.unk


-----------------------------------------------------------------------------
(* The configuration documents loaded.  Strings are written as their bytes *)
(* ("<s>" is 60 115 62); a bare JSON string where an object may also stand *)
(* is the record [str |-> bytes].                                          *)

\* "<s>", "</s>", "<t>", "a<", "<unk>", "<pad>", "[PAD]", "[UNK]".
str_bos == <<60, 115, 62>>
str_eos == <<60, 47, 115, 62>>
str_t == <<60, 116, 62>>
str_a_lt == <<97, 60>>
str_unk == <<60, 117, 110, 107, 62>>
str_pad == <<60, 112, 97, 100, 62>>
str_PAD == <<91, 80, 65, 68, 93>>
str_UNK == <<91, 85, 78, 75, 93>>
\* U+2581, the metaspace mark.
str_meta == <<226, 150, 129>>

\* A byte-level vocabulary: the 256 symbols of the byte alphabet, the symbol
\* of byte b with id b, and after them "ab", "Ġa" and "aa".
byte_level_vocab ==
    LET merged == <<<<97, 98>>, <<196, 160, 97>>, <<97, 97>>>>
    IN  [t \in (DOMAIN ByteLevelDecoder_bm) \cup Range(merged) |->
            IF t \in DOMAIN ByteLevelDecoder_bm THEN ByteLevelDecoder_bm[t]
            ELSE 255 + (CHOOSE k \in 1..Len(merged) : merged[k] = t)]

byte_level_merges ==
    << <<<<97>>, <<98>>>>, <<<<196, 160>>, <<97>>>>, <<<<97>>, <<97>>>> >>

\* GPT-2 style: BPE behind a ByteLevel pre-tokenizer, with <s> and </s>
\* special, <t> not special, and a side configuration naming bos and eos.
K_gpt2 ==
    [model |-> [type |-> "BPE", vocab |-> byte_level_vocab, merges |-> byte_level_merges],
     pre_tokenizer |-> [type |-> "ByteLevel", use_regex |-> TRUE],
     decoder |-> [type |-> "ByteLevel"],
     added_tokens |->
        <<[content |-> str_bos, id |-> 259, special |-> TRUE],
          [content |-> str_eos, id |-> 260, special |-> TRUE],
          [content |-> str_t, id |-> 261, special |-> FALSE]>>,
     config_overrides |->
        [bos_token |-> [str |-> str_bos], eos_token |-> [content |-> str_eos],
         pad_token |-> json_null, unk_token |-> [str |-> str_unk]]]

\* BPE with the byte mapping inside the model (no pre-tokenizer, a ByteLevel
\* decoder); the added tokens <t> and a< overlap in "a<t>", and <s> strips
\* the whitespace after it.  There is a bos and no eos.
K_raw ==
    [model |-> [type |-> "BPE", vocab |-> byte_level_vocab, merges |-> byte_level_merges],
     decoder |-> [type |-> "ByteLevel"],
     added_tokens |->
        <<[content |-> str_t, id |-> 259],
          [content |-> str_a_lt, id |-> 260],
          [content |-> str_bos, id |-> 261, special |-> TRUE, rstrip |-> TRUE]>>]

\* LLaMA style: BPE on code points with <0xHH> fallback tokens, a Prepend
\* and Replace normalizer and the matching decoder chain.
K_llama ==
    [model |->
        [type |-> "BPE", byte_fallback |-> TRUE,
         vocab |-> [t \in {str_unk, str_bos, str_eos, byte_token(98), str_meta, <<97>>,
                           str_meta \o <<97>>, <<97, 97>>} |->
                      CASE t = str_unk -> 0 [] t = str_bos -> 1 [] t = str_eos -> 2
                        [] t = byte_token(98) -> 3 [] t = str_meta -> 4
                        [] t = <<97>> -> 5 [] t = str_meta \o <<97>> -> 6
                        [] OTHER -> 7],
         merges |-> << <<str_meta, <<97>>>>, <<<<97>>, <<97>>>> >>],
     normalizer |->
        [type |-> "Sequence",
         normalizers |-> <<[type |-> "Prepend", prepend |-> str_meta],
                           [type |-> "Replace", pattern |-> [String |-> <<32>>],
                            content |-> str_meta]>>],
     decoder |->
        [type |-> "Sequence",
         decoders |-> <<[type |-> "Replace", pattern |-> [String |-> str_meta],
                         content |-> <<32>>],
                        [type |-> "ByteFallback"], [type |-> "Fuse"],
                        [type |-> "Strip", content |-> <<32>>, start |-> 1, stop |-> 0]>>],
     added_tokens |->
        <<[content |-> str_unk, id |-> 0, special |-> TRUE],
          [content |-> str_bos, id |-> 1, special |-> TRUE],
          [content |-> str_eos, id |-> 2, special |-> TRUE]>>]


\* BERT style: WordPiece; the added token <t> has an id of its own and is
\* not in the model's vocabulary; the side configuration has a null bos.
K_bert ==
    [model |->
        [type |-> "WordPiece", unk_token |-> str_UNK,
         continuing_subword_prefix |-> <<35, 35>>, max_input_chars_per_word |-> 100,
         vocab |-> [t \in {str_PAD, str_UNK, <<97>>, <<98>>, <<35, 35, 97>>,
                           <<35, 35, 98>>, <<97, 98>>} |->
                      CASE t = str_PAD -> 0 [] t = str_UNK -> 1 [] t = <<97>> -> 2
                        [] t = <<98>> -> 3 [] t = <<35, 35, 97>> -> 4
                        [] t = <<35, 35, 98>> -> 5 [] OTHER -> 6]],
     normalizer |-> [type |-> "BertNormalizer", lowercase |-> TRUE],
     pre_tokenizer |-> [type |-> "BertPreTokenizer"],
     decoder |-> [type |-> "WordPiece", prefix |-> <<35, 35>>, cleanup |-> TRUE],
     added_tokens |->
        <<[content |-> str_PAD, id |-> 0, special |-> TRUE],
          [content |-> str_UNK, id |-> 1, special |-> TRUE],
          [content |-> str_t, id |-> 7]>>,
     config_overrides |->
        [unk_token |-> [str |-> str_UNK], pad_token |-> [content |-> str_PAD],
         bos_token |-> json_null]]

\* T5 style: Unigram behind Metaspace; the added token <t> strips the
\* whitespace before it; the side configuration names a bos token, <s>, that
\* the vocabulary does not have.
K_t5 ==
    [model |->
        [type |-> "Unigram", unk_id |-> 2,
         vocab |-> <<<<str_pad, 0>>, <<str_eos, 0>>, <<str_unk, 0>>, <<str_meta, -2>>,
                     <<<<97>>, -3>>, <<<<98>>, -3>>, <<str_meta \o <<97>>, -4>>,
                     <<<<97, 98>>, -5>>>>],
     pre_tokenizer |-> [type |-> "Metaspace", add_prefix_space |-> TRUE],
     decoder |-> [type |-> "Metaspace", add_prefix_space |-> TRUE],
     added_tokens |->
        <<[content |-> str_pad, id |-> 0, special |-> TRUE],
          [content |-> str_eos, id |-> 1, special |-> TRUE],
          [content |-> str_unk, id |-> 2, special |-> TRUE],
          [content |-> str_t, id |-> 8, lstrip |-> TRUE]>>,
     config_overrides |->
        [eos_token |-> [str |-> str_eos], bos_token |-> [str |-> str_bos]]]

\* A BPE document whose added token <s> is already in the vocabulary, under
\* another id.
K_conflict ==
    [model |->
        [type |-> "BPE",
         vocab |-> [t \in {str_bos, <<97>>, <<98>>, <<97, 98>>} |->
                      CASE t = str_bos -> 0 [] t = <<97>> -> 1 [] t = <<98>> -> 2
                        [] OTHER -> 3],
         merges |-> << <<<<97>>, <<98>>>> >>],
     added_tokens |-> <<[content |-> str_bos, id |-> 4, special |-> TRUE]>>]

\* A document without a "model" object: load succeeds and model_ stays absent.
K_nomodel == [added_tokens |-> <<[content |-> str_t, id |-> 0]>>]

Configs == <<K_gpt2, K_raw, K_llama, K_bert, K_t5, K_conflict, K_nomodel>>

\* Documents that hold one stage only, for the stage taken alone: every
\* normalizer type that create_norm knows.
StageDocs ==
    <<[normalizer |-> [type |-> "NFKC"]],
      [normalizer |-> [type |-> "Prepend", prepend |-> str_meta]],
      [normalizer |-> [type |-> "Replace", pattern |-> [String |-> <<98>>],
                       content |-> <<>>]],
      [normalizer |-> [type |-> "Replace", pattern |-> [String |-> <<32>>],
                       content |-> str_meta]],
      [normalizer |-> [type |-> "Precompiled"]],
      [normalizer |-> [type |-> "Lowercase"]],
      [normalizer |-> [type |-> "StripAccents"]],
      [normalizer |-> [type |-> "BertNormalizer"]],
      [normalizer |->
          [type |-> "Sequence",
           normalizers |-> <<[type |-> "Prepend", prepend |-> str_meta],
                             [type |-> "Replace", pattern |-> [String |-> <<32>>],
                              content |-> str_meta]>>]],
      [normalizer |->
          [type |-> "Sequence",
           normalizers |-> <<[type |-> "NFKC"], [type |-> "Lowercase"],
                             [type |-> "StripAccents"]>>]]>>

\* Documents with a pre-tokenizer alone: Split on "b", on \s+ and on b*, with
\* invert or with the behaviors Isolated and Removed; WhitespaceSplit;
\* Metaspace with and without add_prefix_space, alone and behind a split on
\* spaces that keeps them; Digits.
PreDocs ==
    LET split(pattern, invert, behavior) ==
            [type |-> "Split", pattern |-> [Regex |-> pattern], invert |-> invert,
             behavior |-> behavior]
    IN  <<[pre_tokenizer |-> split(<<98>>, TRUE, "Isolated")],
          [pre_tokenizer |-> split(<<92, 115, 43>>, TRUE, "Removed")],
          [pre_tokenizer |-> split(<<98>>, FALSE, "Isolated")],
          [pre_tokenizer |-> split(<<92, 115, 43>>, FALSE, "Isolated")],
          [pre_tokenizer |-> split(<<98, 42>>, FALSE, "Isolated")],
          [pre_tokenizer |-> split(<<98>>, FALSE, "Removed")],
          [pre_tokenizer |-> [type |-> "WhitespaceSplit"]],
          [pre_tokenizer |-> [type |-> "Metaspace", add_prefix_space |-> TRUE]],
          [pre_tokenizer |-> [type |-> "Metaspace", add_prefix_space |-> FALSE]],
          [pre_tokenizer |->
              [type |-> "Sequence",
               pretokenizers |-> <<split(<<92, 115, 43>>, FALSE, "Isolated"),
                                   [type |-> "Metaspace", add_prefix_space |-> TRUE]>>]],
          [pre_tokenizer |-> [type |-> "Digits", individual_digits |-> TRUE]],
          [pre_tokenizer |-> [type |-> "Digits", individual_digits |-> FALSE]]>>

\* Documents with a decoder alone: WordPiece with and without cleanup; Replace
\* of "a" by "aa", of U+2581 by a space, and two whose pattern is an object
\* with a Regex key only; the decoder chain of K_llama; Metaspace; ByteLevel.
DecDocs ==
    <<[decoder |-> [type |-> "WordPiece", prefix |-> <<35, 35>>, cleanup |-> TRUE]],
      [decoder |-> [type |-> "WordPiece", prefix |-> <<35, 35>>, cleanup |-> FALSE]],
      [decoder |-> [type |-> "Replace", pattern |-> [String |-> <<97>>],
                    content |-> <<97, 97>>]],
      [decoder |-> [type |-> "Replace", pattern |-> [String |-> str_meta],
                    content |-> <<32>>]],
      [decoder |-> [type |-> "Replace", pattern |-> [Regex |-> <<97>>], content |-> <<>>]],
      [decoder |-> [type |-> "Replace", pattern |-> [Regex |-> <<97>>],
                    content |-> <<98>>]],
      [decoder |-> K_llama.decoder],
      [decoder |-> [type |-> "Metaspace", add_prefix_space |-> TRUE]],
      [decoder |-> [type |-> "ByteLevel"]]>>

\* Documents for the models taken alone.  M_bpe: BPE on code points whose
\* merges all have their result in the vocabulary.  M_bpe_gap: the merges
\* "a b", "b c" and "d a" over a vocabulary without "bc" and without "d".
\* M_llama and M_llama_off: the model of K_llama with byte_fallback true and
\* false.  M_unigram: a Unigram vocabulary where the longest first token is
\* not the best choice.  M_unigram_bf: the same with byte_fallback and the
\* token <0x63>.
M_bpe ==
    [model |->
        [type |-> "BPE",
         vocab |-> [t \in {<<97>>, <<98>>, <<99>>, <<97, 98>>, <<98, 99>>, <<97, 98, 99>>} |->
                      CASE t = <<97>> -> 0 [] t = <<98>> -> 1 [] t = <<99>> -> 2
                        [] t = <<97, 98>> -> 3 [] t = <<98, 99>> -> 4 [] OTHER -> 5],
         merges |-> << <<<<98>>, <<99>>>>, <<<<97>>, <<98>>>>, <<<<97, 98>>, <<99>>>>,
                       <<<<97>>, <<98, 99>>>> >>]]

M_bpe_gap ==
    [model |->
        [type |-> "BPE",
         vocab |-> [t \in {<<97>>, <<98>>, <<99>>, <<97, 98>>} |->
                      CASE t = <<97>> -> 0 [] t = <<98>> -> 1 [] t = <<99>> -> 2
                        [] OTHER -> 3],
         merges |-> << <<<<97>>, <<98>>>>, <<<<98>>, <<99>>>>, <<<<100>>, <<97>>>> >>]]

M_llama == [model |-> K_llama.model]

M_llama_off == [model |-> [K_llama.model EXCEPT !.byte_fallback = FALSE]]

M_unigram ==
    [model |->
        [type |-> "Unigram", unk_id |-> 0,
         vocab |-> <<<<str_unk, -10>>, <<<<97>>, -3>>, <<<<98>>, -3>>, <<<<97, 98>>, -2>>,
                     <<<<98, 97>>, -1>>, <<<<97, 98, 97>>, -9>>, <<<<97, 97>>, -6>>>>]]

M_unigram_bf ==
    [model |->
        [type |-> "Unigram", unk_id |-> 0, byte_fallback |-> TRUE,
         vocab |-> <<<<str_unk, -10>>, <<<<97>>, -3>>, <<<<98>>, -3>>, <<<<97, 98>>, -2>>,
                     <<byte_token(99), -4>>>>]]

\* A Unigram vocabulary with "ab" and "b" and without "a"; the score of <unk>
\* is 0.
M_unigram_hole ==
    [model |->
        [type |-> "Unigram", unk_id |-> 0,
         vocab |-> <<<<str_unk, 0>>, <<<<97, 98>>, -5>>, <<<<98>>, -1>>>>]]

\* A WordPiece vocabulary without the unk token, for words of at most two
\* bytes.
M_wordpiece ==
    [model |->
        [type |-> "WordPiece", unk_token |-> str_UNK, max_input_chars_per_word |-> 2,
         vocab |-> [t \in {<<97>>, <<35, 35, 98>>, <<97, 98>>} |->
                      CASE t = <<97>> -> 0 [] t = <<35, 35, 98>> -> 1 [] OTHER -> 2]]]

\* The WordPiece model of K_bert for words of at most two bytes.
M_wordpiece_short ==
    [model |-> [K_bert.model EXCEPT !.max_input_chars_per_word = 2]]

\* Byte-level BPE behind a Sequence pre-tokenizer that holds a ByteLevel
\* stage, and byte-level BPE whose only ByteLevel component is the
\* post-processor.
M_bl_seq ==
    [model |-> K_raw.model,
     pre_tokenizer |->
        [type |-> "Sequence",
         pretokenizers |-> <<[type |-> "Digits", individual_digits |-> TRUE],
                             [type |-> "ByteLevel", use_regex |-> FALSE]>>],
     decoder |-> [type |-> "ByteLevel"]]

M_bl_post ==
    [model |-> K_raw.model, post_processor |-> [type |-> "ByteLevel"]]

ModelDocs ==
    <<M_bpe, M_bpe_gap, M_llama, M_llama_off, K_raw, K_conflict,
      M_unigram, M_unigram_bf, M_unigram_hole, [model |-> K_t5.model],
      [model |-> K_bert.model], M_wordpiece, M_wordpiece_short, M_bl_seq, M_bl_post>>

-----------------------------------------------------------------------------
(* The state machine: the facade's calls on one tokenizer object           *)

\* The longest text passed to encode, in atoms: an atom is one of the bytes
\* "a", "b", " " or the whole content of an added token of the tokenizer.
MaxAtoms == 3
\* The longest token string passed to token_to_id, in atoms.
MaxProbeAtoms == 2
\* The ids passed to id_to_token are -1 .. MaxProbeId.
MaxProbeId == 9
\* The longest text of a session of repeated encode calls, in bytes, and the
\* number of cached fragments beyond which the session makes no new call.
MaxSessionLen == 2
MaxCache == 2
\* The longest string passed to a normalizer taken alone, in atoms: "b", "B",
\* a space, a tab, the control character 0x01, NUL, the invalid byte 0x80 and
\* the combining mark U+0301.
MaxNormAtoms == 2
\* The longest string passed to a pre-tokenizer taken alone, in atoms: "a",
\* "b", a space, the digit "1" and the invalid byte 0x80.
MaxPreAtoms == 3
\* The longest token list passed to a decoder taken alone; a token is "a",
\* "##b", ".", "'" or U+2581 "a".  MaxTokenLen is the length of a token
\* beyond which the loop of a Replace decoder is not followed further.
MaxDecTokens == 3
MaxTokenLen == 8

\* The longest fragment passed to a model taken alone, in atoms "a", "b", "c"
\* and U+00E9; the later calls of a session on one BPE model pass fragments of "a"
\* and "b" of at most MaxSessionLen bytes while the cache holds fewer than
\* MaxCache fragments.
MaxFragAtoms == 3

Atoms == {<<97>>, <<98>>, <<32>>} \cup {added_tokens_[k].content : k \in 1..Len(added_tokens_)}

TextsOf(atoms, n) == {Concat(as) : as \in BoundedSeq(atoms, n)}

\* cached: the call was an encode that wrote nothing to cache_.
NoCall == [op |-> "new", text |-> <<>>, add_special_tokens |-> FALSE,
           skip_special_tokens |-> FALSE, ids |-> <<>>, out |-> <<>>, fault |-> FALSE,
           cached |-> FALSE, splits |-> <<>>, tokens |-> <<>>, i |-> 0, pos |-> 0,
           threads |-> <<>>, confined |-> TRUE]

\* The state after PreTrainedTokenizer::PreTrainedTokenizer(): every stage
\* absent, the special ids -1, no added token.
Init ==
    /\ model_ = Nullptr
    /\ normalizer_ = Nullptr
    /\ pre_tokenizer_ = Nullptr
    /\ decoder_ = Nullptr
    /\ added_tokens_ = <<>>
    /\ added_tokens_regex_ = Nullptr
    /\ special_tokens_ = no_special_tokens
    /\ cache_ = EmptyMap
    /\ config = json_null
    /\ call = NoCall


\* PreTrainedTokenizer::load_from_json(j) on the fresh object; the BPE model
\* it builds starts with an empty cache_.
Load(j) ==
    /\ call.op = "new"
    /\ \E t \in {load_from_json(j)} :
        /\ model_' = t.model_
        /\ normalizer_' = t.normalizer_
        /\ pre_tokenizer_' = t.pre_tokenizer_
        /\ decoder_' = t.decoder_
        /\ added_tokens_' = t.added_tokens_
        /\ added_tokens_regex_' = t.added_tokens_regex_
        /\ special_tokens_' = t.special_tokens_
    /\ cache_' = EmptyMap
    /\ config' = j
    /\ call' = [NoCall EXCEPT !.op = "load"]

\* PreTrainedTokenizer::token_to_id(t).
TokenToId(t) ==
    /\ call' = [NoCall EXCEPT !.op = "token_to_id", !.text = t,
                              !.ids = <<PreTrainedTokenizer_token_to_id(t)>>]
    /\ UNCHANGED <<tokenizer, cache_>>

\* PreTrainedTokenizer::id_to_token(id).
IdToToken(id) ==
    /\ call' = [NoCall EXCEPT !.op = "id_to_token", !.ids = <<id>>,
                              !.out = PreTrainedTokenizer_id_to_token(id)]
    /\ UNCHANGED <<tokenizer, cache_>>

\* PreTrainedTokenizer::encode(text, add_special_tokens); the BPE cache_ is
\* the only state it writes.
Encode(text, add_special_tokens) ==
    /\ ~call.fault
    /\ \E r \in {Impl_encode(text, add_special_tokens, cache_)} :
        /\ cache_' = r.cache
        /\ call' = [NoCall EXCEPT !.op = "encode", !.text = text,
                                  !.add_special_tokens = add_special_tokens,
                                  !.ids = r.ids, !.fault = r.fault,
                                  !.cached = (r.cache = cache_)]
    /\ UNCHANGED tokenizer

\* PreTrainedTokenizer::decode(ids, skip_special_tokens) on the ids the last
\* encode returned; text and add_special_tokens stay those of that encode.
Decode(skip_special_tokens) ==
    /\ call.op = "encode" /\ ~call.fault
    /\ call' = [call EXCEPT !.op = "decode",
                            !.skip_special_tokens = skip_special_tokens,
                            !.out = PreTrainedTokenizer_decode(call.ids, skip_special_tokens)]
    /\ UNCHANGED <<tokenizer, cache_>>

\* One byte through the remapping loop of ByteLevelPreTokenizer and back
\* through ByteLevelDecoder::decode.
ByteRoundTrip(b) ==
    /\ call' = [NoCall EXCEPT !.op = "byte", !.text = <<b>>,
                              !.out = Concat(ByteLevelDecoder_decode(
                                                <<byte_level_remap(<<b>>)>>))]
    /\ UNCHANGED <<tokenizer, cache_>>

\* One call on a fresh or freshly loaded tokenizer, and the decode of what
\* an encode returned.
Next ==
    \/ \E k \in 1..Len(Configs) : Load(Configs[k])
    \/ /\ call.op \in {"new", "load"}
       /\ \/ \E t \in TextsOf(Atoms, MaxProbeAtoms) : TokenToId(t)
          \/ \E id \in (-1)..MaxProbeId : IdToToken(id)
          \/ \E x \in TextsOf(Atoms, MaxAtoms), f \in BOOLEAN : Encode(x, f)
    \/ \E skip \in BOOLEAN : Decode(skip)

Spec == Init /\ [][Next]_vars

\* A session: any number of encode and decode calls on a loaded tokenizer,
\* over short texts, until the cache holds MaxCache fragments.
NextSession ==
    \/ \E k \in 1..Len(Configs) : Load(Configs[k])
    \/ /\ call.op # "new"
       /\ Cardinality(DOMAIN cache_) < MaxCache
       /\ \E x \in TextsOf({<<97>>, <<32>>}, MaxSessionLen), f \in BOOLEAN : Encode(x, f)
    \/ \E skip \in BOOLEAN : Decode(skip)

SpecSession == Init /\ [][NextSession]_vars

\* Normalizer::normalize of the loaded normalizer on x.
Normalize(x) ==
    /\ call.op = "load" /\ normalizer_ # Nullptr
    /\ call' = [NoCall EXCEPT !.op = "normalize", !.text = x,
                              !.out = Normalizer_normalize(normalizer_, x)]
    /\ UNCHANGED <<tokenizer, cache_>>

\* PreTokenizer::pre_tokenize of the loaded pre-tokenizer on the one split x,
\* as Impl::encode calls it.
PreTokenize(x) ==
    /\ call.op = "load" /\ pre_tokenizer_ # Nullptr
    /\ call' = [NoCall EXCEPT !.op = "pre_tokenize", !.text = x,
                              !.splits = PreTokenizer_pre_tokenize(pre_tokenizer_, <<x>>)]
    /\ UNCHANGED <<tokenizer, cache_>>

\* One stage alone: a document with that stage is loaded and the stage is
\* applied to one input.
NextStages ==
    \/ \E k \in 1..Len(StageDocs) : Load(StageDocs[k])
    \/ \E k \in 1..Len(PreDocs) : Load(PreDocs[k])
    \/ \E x \in TextsOf({<<97>>, <<98>>, <<32>>, <<49>>, <<128>>}, MaxPreAtoms) : PreTokenize(x)
    \/ \E x \in TextsOf({<<98>>, <<66>>, <<32>>, <<9>>, <<1>>, <<0>>, <<128>>, <<204, 129>>},
                         MaxNormAtoms) : Normalize(x)

SpecStages == Init /\ [][NextStages]_vars

\* Model::tokenize of the loaded model on the fragment x; cached: x was in
\* cache_ before the call.
Tokenize(x) ==
    /\ model_ # Nullptr
    /\ \E r \in {Model_tokenize(model_, cache_, x)} :
        /\ cache_' = r.cache
        /\ call' = [NoCall EXCEPT !.op = "tokenize", !.text = x, !.ids = r.ids,
                                  !.cached = (x \in DOMAIN cache_)]
    /\ UNCHANGED tokenizer

\* One model alone: a document is loaded and the model is applied to one
\* fragment, and a BPE model to further short fragments.
NextModels ==
    \/ \E k \in 1..Len(ModelDocs) : Load(ModelDocs[k])
    \/ /\ call.op = "load"
       /\ \E x \in TextsOf({<<97>>, <<98>>, <<99>>, <<195, 169>>}, MaxFragAtoms) : Tokenize(x)
    \/ /\ call.op = "tokenize" /\ model_.kind = "BPE"
       /\ Cardinality(DOMAIN cache_) < MaxCache
       /\ \E x \in TextsOf({<<97>>, <<98>>}, MaxSessionLen) : Tokenize(x)

SpecModels == Init /\ [][NextModels]_vars

\* Decoder::set_clean_up_tokenization_spaces(clean), dispatched on the
\* object's class: a WordPiece decoder takes the flag, a Sequence hands it
\* to its stages, the others ignore it.
RECURSIVE Decoder_set_clean_up_tokenization_spaces(_, _)
Decoder_set_clean_up_tokenization_spaces(d, clean) ==
    CASE d.kind = "WordPiece" -> [d EXCEPT !.cleanup_ = clean]
      [] d.kind = "Sequence"  ->
            [d EXCEPT !.decoders_ =
                [k \in 1..Len(d.decoders_) |->
                    Decoder_set_clean_up_tokenization_spaces(d.decoders_[k], clean)]]
      [] OTHER -> d

\* PreTrainedTokenizer::set_clean_up_tokenization_spaces(clean) after the
\* load, as from_pretrained calls it.
SetCleanUp(clean) ==
    /\ call.op = "load" /\ decoder_ # Nullptr
    /\ decoder_' = Decoder_set_clean_up_tokenization_spaces(decoder_, clean)
    /\ UNCHANGED <<model_, normalizer_, pre_tokenizer_, added_tokens_, added_tokens_regex_,
                   special_tokens_, cache_, config, call>>

\* Decoder::decode of the loaded decoder on the token list ts, for a decoder
\* that is not a Replace decoder; splits is the list afterwards.
DecodeTokens(ts) ==
    /\ call.op = "load" /\ "decoder" \in DOMAIN config /\ decoder_.kind # "Replace"
    /\ call' = [NoCall EXCEPT !.op = "decode_tokens", !.tokens = ts,
                              !.splits = Decoder_decode(decoder_, ts)]
    /\ UNCHANGED <<tokenizer, cache_>>

\* The entry of ReplaceDecoder::decode on the token list ts: the loop over
\* the tokens is at the first token (i = 1) with pos = 0.
ReplaceStart(ts) ==
    /\ call.op = "load" /\ "decoder" \in DOMAIN config /\ decoder_.kind = "Replace"
    /\ call' = [NoCall EXCEPT !.op = "replacing", !.tokens = ts, !.splits = ts,
                              !.i = 1, !.pos = 0]
    /\ UNCHANGED <<tokenizer, cache_>>

\* One evaluation of the while condition of ReplaceDecoder::decode on token
\* i: npos moves on to the next token (or returns after the last), a hit
\* replaces and advances pos by the length of content_.  With an empty
\* pattern_ and an empty content_ the hit leaves the token and pos as they
\* were: the code goes round the loop for ever in one and the same state.
\* A token that grows is followed up to MaxTokenLen bytes.
ReplaceStep ==
    /\ call.op = "replacing"
    /\ IF call.i > Len(call.splits)
          THEN call' = [call EXCEPT !.op = "decode_tokens", !.i = 0, !.pos = 0]
       ELSE LET t     == call.splits[call.i]
                found == IF call.pos > Len(t) THEN -1
                         ELSE find(t, decoder_.pattern_, call.pos)
            IN  IF found = -1
                   THEN call' = [call EXCEPT !.i = @ + 1, !.pos = 0]
                ELSE /\ Len(t) < MaxTokenLen
                     /\ call' = [call EXCEPT
                                    !.splits[call.i] = replace(t, found, Len(decoder_.pattern_),
                                                               decoder_.content_),
                                    !.pos = found + Len(decoder_.content_)]
    /\ UNCHANGED <<tokenizer, cache_>>

\* One decoder alone: a document with a decoder is loaded, the clean-up flag
\* may be set, and the decoder is applied to one token list; the loop of a
\* Replace decoder is followed step by step, and a step that can be taken
\* is taken.
NextDecoders ==
    \/ \E k \in 1..Len(DecDocs) : Load(DecDocs[k])
    \/ \E clean \in BOOLEAN : SetCleanUp(clean)
    \/ \E ts \in BoundedSeq({<<97>>, <<35, 35, 98>>, <<46>>, <<39>>, str_meta \o <<97>>},
                             MaxDecTokens) :
          DecodeTokens(ts) \/ ReplaceStart(ts)
    \/ ReplaceStep

SpecDecoders == Init /\ [][NextDecoders]_vars /\ WF_vars(ReplaceStep)

\* The byte alphabet alone: every byte 0..255 through the table and back.
NextBytes == \E b \in 0..255 : ByteRoundTrip(b)

SpecBytes == Init /\ [][NextBytes]_vars


-----------------------------------------------------------------------------
(* Properties                                                              *)

\* encode(x, false) of the tokenizer as it stands, on an empty cache.
encode_plain(x) == Impl_encode(x, FALSE, EmptyMap).ids

\* C2 (determinism of encode): whatever encode and decode calls came before,
\* and so whatever cache_ holds, encode(x, f) returns what it returns on an
\* empty cache: the ids are a function of the loaded tokenizer, x and f.
EncodeDeterminism ==
    (call.op = "encode" /\ ~call.fault)
        => call.ids = Impl_encode(call.text, call.add_special_tokens, EmptyMap).ids

\* An encode on a BPE model that returned ids and wrote nothing to cache_:
\* every fragment of it was answered from what earlier calls had stored.
EncodeFromCache ==
    /\ call.op = "encode" /\ call.cached /\ call.ids # <<>>
    /\ model_.kind = "BPE" /\ call.text = <<97, 97>>
    /\ call.ids = <<258>>

\* C3 (vocab bijection), as stated: in a loaded tokenizer, for every id i of
\* the vocabulary token_to_id(id_to_token(i)) = i, and vocab[s] = id exactly
\* when inverse[id] = s.
VocabBijection ==
    model_ # Nullptr =>
        /\ \A i \in DOMAIN model_.id_to_token_ :
              Model_token_to_id(model_, Model_id_to_token(model_, i)) = i
        /\ \A t \in DOMAIN model_.vocab_ :
              Model_id_to_token(model_, model_.vocab_[t]) = t

\* C4 (byte-alphabet bijection): create_bytes_char_map gives the bytes
\* 0..255 256 different strings, and a byte sent through the table and back
\* through the ByteLevel decoder's inverse table is the byte itself.
ByteAlphabetBijection ==
    /\ DOMAIN create_bytes_char_map = 0..255
    /\ Cardinality(Range(create_bytes_char_map)) = 256
    /\ (call.op = "byte" => call.out = call.text)

\* The space, a byte the table moves (to U+0120), has gone there and back.
SpaceRoundTrip ==
    /\ call.op = "byte" /\ call.text = <<32>> /\ call.out = <<32>>
    /\ create_bytes_char_map[32] = <<196, 160>>

\* The tokenizers C5 is about: BPE with the byte mapping in its pre-tokenizer
\* or in the model, a ByteLevel decoder, and all 256 symbols in the vocabulary.
ByteLevelBPE ==
    /\ model_.kind = "BPE"
    /\ model_.use_byte_level_ \/ pre_tokenizer_.kind = "ByteLevel"
    /\ decoder_.kind = "ByteLevel"
    /\ Range(create_bytes_char_map) \subseteq DOMAIN model_.vocab_

\* The added tokens the dispatcher finds in text.
matched_tokens(text) ==
    LET units == split_units(text, 0)
    IN  {find_added_token(units[k][1]) : k \in {l \in 1..Len(units) : units[l][2]}}

\* Every added token sits in the model's two tables as content <-> id.
AddedTokensInVocab ==
    \A k \in 1..Len(added_tokens_) :
        /\ Model_token_to_id(model_, added_tokens_[k].content) = added_tokens_[k].id
        /\ Model_id_to_token(model_, added_tokens_[k].id) = added_tokens_[k].content

\* The decode of an encode(x, false) with skip_special_tokens = true, on a
\* byte-level BPE tokenizer.
RoundTripCall ==
    /\ call.op = "decode" /\ ~call.add_special_tokens /\ call.skip_special_tokens
    /\ ByteLevelBPE

atomic_tokens ==
    {k \in 1..Len(added_tokens_) :
        \A l \in 1..Len(added_tokens_) :
            l # k => find(added_tokens_[l].content, added_tokens_[k].content, 0) = -1}

\* The offsets at which pat occurs in s.
occurrences(s, pat) == {p \in 0..(Len(s) - Len(pat)) : occurs_at(s, pat, p)}

\* text = prefix + c + suffix with c the content of added token k at offset
\* p, and no added-token content anywhere in prefix + suffix or across the
\* seams: the only occurrence of an added token in text is c at p.
only_added_token(text, k, p) ==
    /\ occurrences(text, added_tokens_[k].content) = {p}
    /\ \A l \in 1..Len(added_tokens_) :
          added_tokens_[l].content # added_tokens_[k].content
              => occurrences(text, added_tokens_[l].content) = {}

\* C6 (added-token atomicity), as stated, and read as narrowly as it can be:
\* for an added token c that is no substring of another's content, and a
\* prefix and suffix that bring no other occurrence of an added token,
\* encode(prefix + c + suffix, false) holds the id of c exactly once, right
\* after the ids of prefix.
AddedTokenAtomicity ==
    (call.op = "encode" /\ ~call.fault /\ ~call.add_special_tokens) =>
        \A k \in atomic_tokens :
            \A p \in 0..Len(call.text) :
                only_added_token(call.text, k, p) =>
                    LET before == Len(encode_plain(substr(call.text, 0, p))) IN
                    /\ Cardinality({i \in 1..Len(call.ids) :
                                       call.ids[i] = added_tokens_[k].id}) = 1
                    /\ Len(call.ids) > before
                    /\ call.ids[before + 1] = added_tokens_[k].id

\* C7 (compositionality around an added token), as stated: when the first
\* match of the dispatcher is the added token c at [m, e) and c has neither
\* lstrip nor rstrip, encode(text, false) is encode(text[0..m), false), then
\* the id of c, then encode(text[e..], false).
EncodeCompositional ==
    (/\ call.op = "encode" /\ ~call.fault /\ ~call.add_special_tokens
     /\ added_tokens_regex_ # Nullptr /\ model_ # Nullptr)
    => LET ma == OnigRegex_search(added_tokens_regex_, call.text, 0)
           at == find_added_token(substr(call.text, ma.match_start,
                                         ma.match_end - ma.match_start))
       IN  (ma.found /\ ~at.lstrip /\ ~at.rstrip) =>
               call.ids = encode_plain(substr(call.text, 0, ma.match_start))
                          \o <<at.id>>
                          \o encode_plain(substr(call.text, ma.match_end,
                                                 Len(call.text) - ma.match_end))

\* The ids add_special_tokens puts around the ids of the text.
framed(ids) ==
    (IF special_tokens_.bos # -1 THEN <<special_tokens_.bos>> ELSE <<>>)
    \o ids
    \o (IF special_tokens_.eos # -1 THEN <<special_tokens_.eos>> ELSE <<>>)

\* C8 (encode framing), as stated: for every text, the empty one too,
\* encode(text, true) is the bos id if there is one, then encode(text,
\* false), then the eos id if there is one.
EncodeFraming ==
    (call.op = "encode" /\ ~call.fault /\ call.add_special_tokens)
        => call.ids = framed(encode_plain(call.text))

\* C9 (lookup misses), as stated: with any model or none, token_to_id of a
\* string outside the vocabulary is -1 and id_to_token of an id outside it
\* is the empty string.
LookupMisses ==
    /\ (/\ call.op = "token_to_id"
        /\ (model_ = Nullptr \/ call.text \notin DOMAIN model_.vocab_))
       => call.ids = <<-1>>
    /\ (/\ call.op = "id_to_token"
        /\ (model_ = Nullptr \/ call.ids[1] \notin DOMAIN model_.id_to_token_))
       => call.out = <<>>

\* Whether id is, after the load of config, the id of a token naming the
\* role: a recognised literal among the added tokens, or the token the side
\* configuration names under key.
names_role(id, literals, key) ==
    \/ \E k \in 1..Len(added_tokens_) :
          added_tokens_[k].content \in literals /\ added_tokens_[k].id = id
    \/ /\ contains(config, "config_overrides")
       /\ contains(config.config_overrides, key)
       /\ model_ # Nullptr
       /\ LET c == get_token_content(config.config_overrides[key]) IN
          c \in DOMAIN model_.vocab_ /\ model_.vocab_[c] = id

\* Whether the side configuration names, under key, null or a token that is
\* not in the vocabulary.
names_nothing(key) ==
    /\ contains(config, "config_overrides")
    /\ contains(config.config_overrides, key)
    /\ (model_ = Nullptr
        \/ get_token_content(config.config_overrides[key]) \notin DOMAIN model_.vocab_)

\* C10 (special-token accessors), as stated: after load every accessor gives
\* -1 or the id of a token naming its role, and -1 when the side
\* configuration names null or a token the vocabulary does not have.
SpecialTokenAccessors ==
    call.op # "new" =>
        /\ pad_token_id = -1 \/ names_role(pad_token_id, role_literals.pad, "pad_token")
        /\ bos_token_id = -1 \/ names_role(bos_token_id, role_literals.bos, "bos_token")
        /\ eos_token_id = -1 \/ names_role(eos_token_id, role_literals.eos, "eos_token")
        /\ unk_token_id = -1 \/ names_role(unk_token_id, role_literals.unk, "unk_token")
        /\ names_nothing("pad_token") => pad_token_id = -1
        /\ names_nothing("bos_token") => bos_token_id = -1
        /\ names_nothing("eos_token") => eos_token_id = -1
        /\ names_nothing("unk_token") => unk_token_id = -1


\* ids without the ids of the added tokens flagged special.
without_special(ids) ==
    SelectSeq(ids, LAMBDA id : ~\E k \in 1..Len(added_tokens_) :
                                    added_tokens_[k].id = id /\ added_tokens_[k].special)

\* The decoder chain and the concatenation, on the token string of every id
\* of ids that has one: no id is left out.
decode_every(ids) ==
    Concat(IF decoder_ # Nullptr
               THEN Decoder_decode(decoder_,
                        SelectSeq([k \in 1..Len(ids) |-> Model_id_to_token(model_, ids[k])],
                                  LAMBDA t : t # <<>>))
               ELSE SelectSeq([k \in 1..Len(ids) |-> Model_id_to_token(model_, ids[k])],
                              LAMBDA t : t # <<>>))

\* C11 (decode skipping): decode(ids, true) is decode(ids', true) for ids'
\* the ids without those of special added tokens, and it is the decoding of
\* every id of ids', so ids of added tokens that are not special are kept;
\* decode(ids, false) is the decoding of every id of ids.
DecodeSkipping ==
    call.op = "decode" =>
        IF call.skip_special_tokens
            THEN /\ call.out = PreTrainedTokenizer_decode(without_special(call.ids), TRUE)
                 /\ call.out = decode_every(without_special(call.ids))
            ELSE call.out = decode_every(call.ids)

\* "<s><t>a" encoded on the GPT-2 style tokenizer and decoded with
\* skip_special_tokens: the special <s> is skipped, the added <t> is kept.
DecodeSkipped ==
    /\ call.op = "decode" /\ call.skip_special_tokens
    /\ call.ids = <<259, 261, 97>>
    /\ call.out = str_t \o <<97>>


\* The text of the call is p, one space and the added token c, where p is
\* empty or ends in no whitespace, and the dispatcher's first match in the
\* text is that c.
space_before_token(p, c) ==
    /\ call.text = p \o <<32>> \o c
    /\ p = <<>> \/ ~is_ascii_space(p[Len(p)])
    /\ added_tokens_regex_ # Nullptr
    /\ OnigRegex_search(added_tokens_regex_, call.text, 0)
           = [found |-> TRUE, match_start |-> Len(p) + 1, match_end |-> Len(call.text)]

\* C12 (added-token lstrip): in encode(p + " " + c) where the matched added
\* token c has lstrip, the space is absorbed: the ids are those of p alone
\* followed by those of c alone, and none stands for the space.
LstripAbsorbsSpace ==
    (call.op = "encode" /\ ~call.fault /\ ~call.add_special_tokens) =>
        \A k \in 1..Len(added_tokens_) :
            \A n \in 0..Len(call.text) :
                (/\ find_added_token(added_tokens_[k].content).lstrip
                 /\ space_before_token(SubSeq(call.text, 1, n), added_tokens_[k].content))
                    => call.ids = encode_plain(SubSeq(call.text, 1, n))
                                      \o encode_plain(added_tokens_[k].content)

\* encode("a <t>") on the T5 style tokenizer, whose <t> has lstrip: the ids
\* are those of "a" alone and the one id that "<t>" alone gives.
LstripAbsorbed ==
    /\ call.op = "encode" /\ ~call.fault /\ ~call.add_special_tokens
    /\ model_ # Nullptr /\ model_.kind = "Unigram"
    /\ space_before_token(<<97>>, str_t)
    /\ find_added_token(str_t).lstrip
    /\ call.ids = encode_plain(<<97>>) \o encode_plain(str_t)
    /\ Len(call.ids) = 2


RECURSIVE stages_of(_)
stages_of(n) ==
    IF n.kind = "Sequence"
        THEN UNION {stages_of(n.normalizers_[k]) : k \in 1..Len(n.normalizers_)}
        ELSE {n}

\* x is valid UTF-8 and holds no NUL, no control character other than tab,
\* newline and carriage return, and no combining mark.
solid_text(x) ==
    /\ \A k \in 1..Len(x) : x[k] >= 32 \/ x[k] \in {9, 10, 13}
    /\ \A k \in 1..Len(x) : x[k] < 127

Threads == {1, 2}

IdleThread == [pc |-> "idle", text |-> <<>>, ids |-> <<>>, raced |-> FALSE]

threads_now == IF call.op = "threads" THEN call.threads ELSE [t \in Threads |-> IdleThread]

\* Thread t enters an access to cache_ (pc "find" or "insert") with the
\* fragment text and the ids it holds: it and every thread it overlaps with
\* unsafely are marked.
enter_access(ths, t, pc, text, ids) ==
    [u \in Threads |->
        IF u = t
           THEN [pc |-> pc, text |-> text, ids |-> ids,
                 raced |-> \E v \in Threads \ {t} :
                              \/ ths[v].pc = "insert"
                              \/ pc = "insert" /\ ths[v].pc = "find"]
        ELSE IF ths[u].pc = "insert" \/ (pc = "insert" /\ ths[u].pc = "find")
           THEN [ths[u] EXCEPT !.raced = TRUE]
        ELSE ths[u]]

\* Thread t calls BPEModel::tokenize(x), x not empty, and starts the lookup;
\* confined is kept while no call starts during another call.
ThreadCall(t, x) ==
    /\ call.op \in {"load", "threads"} /\ ~call.fault
    /\ model_ # Nullptr /\ model_.kind = "BPE"
    /\ threads_now[t].pc = "idle"
    /\ call' = [NoCall EXCEPT
                  !.op = "threads",
                  !.threads = enter_access(threads_now, t, "find", x, <<>>),
                  !.confined = call.confined
                               /\ \A u \in Threads : threads_now[u].pc = "idle"]
    /\ UNCHANGED <<tokenizer, cache_>>

\* The lookup of thread t returns: a hit returns the stored ids, a miss goes
\* on to compute.  After a data race the lookup may also miss an entry or
\* the process may fault.
ThreadFound(t) ==
    /\ call.op = "threads" /\ ~call.fault /\ call.threads[t].pc = "find"
    /\ \/ /\ call.threads[t].text \in DOMAIN cache_
          /\ call' = [call EXCEPT !.threads[t] =
                         [pc |-> "idle", text |-> call.threads[t].text,
                          ids |-> cache_[call.threads[t].text], raced |-> FALSE]]
       \/ /\ call.threads[t].text \notin DOMAIN cache_ \/ call.threads[t].raced
          /\ call' = [call EXCEPT !.threads[t].pc = "compute", !.threads[t].raced = FALSE]
       \/ /\ call.threads[t].raced
          /\ call' = [call EXCEPT !.fault = TRUE]
    /\ UNCHANGED <<tokenizer, cache_>>

\* Thread t has computed the ids and starts cache_[text] = out.
ThreadInsert(t) ==
    /\ call.op = "threads" /\ ~call.fault /\ call.threads[t].pc = "compute"
    /\ call' = [call EXCEPT !.threads =
                   enter_access(call.threads, t, "insert", call.threads[t].text,
                                bpe_compute(model_, call.threads[t].text))]
    /\ UNCHANGED <<tokenizer, cache_>>

\* The insertion of thread t returns and with it the call.  After a data
\* race the entry may be lost or the process may fault.
ThreadStored(t) ==
    /\ call.op = "threads" /\ ~call.fault /\ call.threads[t].pc = "insert"
    /\ \/ /\ cache_' = cache_store(cache_, call.threads[t].text, call.threads[t].ids)
          /\ call' = [call EXCEPT !.threads[t].pc = "idle", !.threads[t].raced = FALSE]
       \/ /\ call.threads[t].raced
          /\ cache_' = cache_
          /\ call' = [call EXCEPT !.threads[t].pc = "idle", !.threads[t].raced = FALSE]
       \/ /\ call.threads[t].raced
          /\ cache_' = cache_
          /\ call' = [call EXCEPT !.fault = TRUE]
    /\ UNCHANGED tokenizer

\* Two threads that call tokenize on one loaded BPE model, each call after
\* the thread's last one, on the fragments "a" and "ab".
NextThreads ==
    \/ Load(M_bpe) \/ Load(K_conflict)
    \/ \E t \in Threads :
          \/ \E x \in {<<97>>, <<97, 98>>} : ThreadCall(t, x)
          \/ ThreadFound(t)
          \/ ThreadInsert(t)
          \/ ThreadStored(t)

SpecThreads == Init /\ [][NextThreads]_vars

----------------------------------------------------------------------------
(* The BPE model alone                                                     *)

\* The ids BPEModel::tokenize starts the merge loop from.
bpe_seed(m, text) ==
    IF m.use_byte_level_ THEN bpe_seed_bytes(m, text) ELSE bpe_seed_code_points(m, text, 0)

\* The reference greedy-rank procedure: while some adjacent pair has a merge
\* rank, the leftmost pair of the least rank is replaced by the id of the
\* concatenation of its two tokens.
RECURSIVE greedy_rank(_, _)
greedy_rank(m, ids) ==
    LET ranked == {i \in 1..(Len(ids) - 1) : <<ids[i], ids[i + 1]>> \in DOMAIN m.merges_}
        least  == CHOOSE r \in {m.merges_[<<ids[i], ids[i + 1]>>] : i \in ranked} :
                     \A i \in ranked : r <= m.merges_[<<ids[i], ids[i + 1]>>]
        at     == CHOOSE i \in ranked :
                     /\ m.merges_[<<ids[i], ids[i + 1]>>] = least
                     /\ \A k \in ranked :
                           m.merges_[<<ids[k], ids[k + 1]>>] = least => i <= k
    IN  IF ranked = {} THEN ids
        ELSE greedy_rank(m, SubSeq(ids, 1, at - 1)
                            \o <<BPEModel_token_to_id(m, BPEModel_id_to_token(m, ids[at])
                                                      \o BPEModel_id_to_token(m, ids[at + 1]))>>
                            \o SubSeq(ids, at + 2, Len(ids)))

\* C14: what a BPE model returns for a fragment is what the greedy-rank
\* procedure makes of the seeded ids, and no two neighbours of it are a key
\* of the merge table.
GreedyRankMerging ==
    (call.op = "tokenize" /\ model_.kind = "BPE") =>
        /\ call.ids = greedy_rank(model_, bpe_seed(model_, call.text))
        /\ \A i \in 1..(Len(call.ids) - 1) :
              <<call.ids[i], call.ids[i + 1]>> \notin DOMAIN model_.merges_

\* C15: after the load of a BPE document every key (a, b) of the merge table
\* is made of ids of vocabulary tokens whose concatenation is a vocabulary
\* token too, and comes from an entry of the document whose two operands are
\* in the document's vocabulary.
MergeTableInvariant ==
    (call.op = "load" /\ model_ # Nullptr /\ model_.kind = "BPE") =>
        \A key \in DOMAIN model_.merges_ :
            /\ key[1] \in DOMAIN model_.id_to_token_
            /\ key[2] \in DOMAIN model_.id_to_token_
            /\ model_.id_to_token_[key[1]] \o model_.id_to_token_[key[2]]
                  \in DOMAIN model_.vocab_
            /\ \E k \in 1..Len(config.model.merges) :
                  LET s1 == config.model.merges[k][1]
                      s2 == config.model.merges[k][2]
                  IN  /\ s1 \in DOMAIN config.model.vocab
                      /\ s2 \in DOMAIN config.model.vocab
                      /\ key = <<config.model.vocab[s1], config.model.vocab[s2]>>

\* Seeding by code point as the format describes it, for a fragment of
\* ASCII characters: a character that is a vocabulary token gives its id;
\* another one gives the id of its <0xHH> token when byte_fallback is set
\* and that token exists, and nothing otherwise.
gated_seed(m, byte_fallback, text) ==
    found_ids([k \in 1..Len(text) |->
        IF <<text[k]>> \in DOMAIN m.vocab_ THEN m.vocab_[<<text[k]>>]
        ELSE IF byte_fallback THEN BPEModel_token_to_id(m, byte_token(text[k]))
        ELSE -1])

\* C16: a BPE model that seeds by code point merges the ids of the gated
\* seeding: a character outside the vocabulary gives <0xHH> ids only when
\* the document sets byte_fallback, and no id when it does not.
ByteFallbackGating ==
    (call.op = "tokenize" /\ model_.kind = "BPE" /\ ~model_.use_byte_level_) =>
        call.ids = bpe_merge(model_, gated_seed(model_, value(config.model, "byte_fallback", FALSE),
                                                call.text))

\* C17: the cache of a BPE model is empty when the load of the tokenizer
\* finishes; at every moment each entry cache_[f] is what the model computes
\* for f without the cache; a call on a fragment that is in the cache
\* returns the stored ids; and no call removes or changes an entry.
CacheInvariant ==
    /\ [](/\ call.op = "load" => cache_ = EmptyMap
          /\ (model_ # Nullptr /\ model_.kind = "BPE") =>
                \A f \in DOMAIN cache_ : cache_[f] = bpe_compute(model_, f))
    /\ [][/\ \A f \in DOMAIN cache_ : f \in DOMAIN cache_' /\ cache_'[f] = cache_[f]
          /\ (call'.op = "tokenize" /\ call'.text \in DOMAIN cache_) =>
                call'.ids = cache_[call'.text]]_vars

\* A second call on "ab" after the load of K_conflict, whose added token
\* <s> rewrote the vocabulary: the call returns the cached [3].
CacheHit ==
    /\ config = K_conflict /\ call.op = "tokenize" /\ call.cached
    /\ call.text = <<97, 98>> /\ call.ids = <<3>>
    /\ cache_ = (<<97, 98>> :> <<3>>)

----------------------------------------------------------------------------
(* The Unigram model alone                                                 *)

\* The segmentations of text into vocabulary tokens, each a sequence of
\* token strings.
RECURSIVE segmentations(_, _)
segmentations(m, text) ==
    IF text = <<>> THEN {<<>>}
    ELSE UNION {{<<SubSeq(text, 1, k)>> \o s :
                    s \in segmentations(m, SubSeq(text, k + 1, Len(text)))} :
                k \in {k \in 1..Len(text) : SubSeq(text, 1, k) \in DOMAIN m.vocab_}}

RECURSIVE sum_of(_)
sum_of(s) == IF s = <<>> THEN 0 ELSE Head(s) + sum_of(Tail(s))

\* C18: for a fragment that has a segmentation into vocabulary tokens, a
\* Unigram model without byte fallback returns ids whose tokens concatenate
\* to the fragment and whose scores add up to the greatest sum any
\* segmentation has.
UnigramOptimality ==
    (/\ call.op = "tokenize" /\ model_.kind = "Unigram" /\ ~model_.byte_fallback_
     /\ segmentations(model_, call.text) # {}) =>
        /\ \A k \in 1..Len(call.ids) : call.ids[k] \in DOMAIN model_.id_to_token_
        /\ Concat([k \in 1..Len(call.ids) |-> model_.id_to_token_[call.ids[k]]]) = call.text
        /\ \A s \in segmentations(model_, call.text) :
              sum_of([k \in 1..Len(call.ids) |-> model_.scores_[call.ids[k] + 1]])
                 >= sum_of([k \in 1..Len(s) |-> model_.scores_[model_.vocab_[s[k]] + 1]])

\* The tables of UnigramModel::tokenize after the forward pass over text.
unigram_tables(m, text) ==
    unigram_forward(m, text, 1,
        [best_scores   |-> [k \in 1..(Len(text) + 1) |-> IF k = 1 THEN 0 ELSE unigram_unreached],
         best_prev_pos |-> [k \in 1..(Len(text) + 1) |-> 0],
         best_ids      |-> [k \in 1..(Len(text) + 1) |-> -1]])

\* The number of backtrack steps from cur to position 0 that go strictly
\* left, or -1 when a step does not.
RECURSIVE steps_to_start(_, _)
steps_to_start(v, cur) ==
    IF cur = 0 THEN 0
    ELSE IF v.best_prev_pos[cur + 1] >= cur THEN -1
    ELSE LET rest == steps_to_start(v, v.best_prev_pos[cur + 1])
         IN  IF rest = -1 THEN -1 ELSE rest + 1

\* The byte position where the UTF-8 character that ends at i starts.
char_start(text, i) ==
    IF i >= 2 /\ text[i] >= 128 /\ text[i] < 192 /\ text[i - 1] >= 192 /\ text[i - 1] < 224
        THEN i - 2
    ELSE i - 1

\* C19: for every non-empty fragment given to a Unigram model, every byte
\* position is reached by the forward pass, a position no vocabulary token
\* reaches being entered by an unk step from the start of the character
\* that ends there; the backtrack from the end arrives at 0 and the call
\* returns at least one id.
UnigramNeverAborts ==
    (call.op = "tokenize" /\ model_.kind = "Unigram" /\ call.text # <<>>) =>
        LET v == unigram_tables(model_, call.text) IN
        /\ \A i \in 1..Len(call.text) :
              /\ v.best_scores[i + 1] > unigram_threshold
              /\ (\A j \in 0..(i - 1) : ~unigram_candidate(model_, call.text, i, j).some)
                    => /\ v.best_ids[i + 1] = model_.unk_token_id_
                       /\ v.best_prev_pos[i + 1] = char_start(call.text, i)
        /\ steps_to_start(v, Len(call.text)) >= 1
        /\ call.ids # <<>>

\* "a" then U+00E9, which the vocabulary of M_unigram does not have: the
\* call returns "a" and one unk.
UnkStepTaken ==
    /\ config = M_unigram /\ call.op = "tokenize"
    /\ call.text = <<97, 195, 169>> /\ call.ids = <<1, 0>>

----------------------------------------------------------------------------
(* The WordPiece model alone                                               *)

\* The lookup form of the slice [start, end) of text.
lookup_form(m, text, start, end) ==
    (IF start > 0 THEN m.continuing_subword_prefix_ ELSE <<>>)
    \o SubSeq(text, start + 1, end)

\* C20: when a WordPiece model returns something else than the unk result
\* (the fragment is not longer than max_input_chars_per_word and the ids
\* are not the single unk id), there are cut positions that divide the
\* fragment into as many pieces as there are ids, left to right; the piece
\* that starts at start ends at the greatest end whose lookup form is in the
\* vocabulary, and its id is the id of that form.
WordPieceLongestMatch ==
    (/\ call.op = "tokenize" /\ model_.kind = "WordPiece" /\ call.text # <<>>
     /\ Len(call.text) <= model_.max_input_chars_per_word_
     /\ call.ids # <<model_.unk_token_id_>>) =>
        \E cuts \in SUBSET (1..(Len(call.text) - 1)) :
            /\ Cardinality(cuts) + 1 = Len(call.ids)
            /\ \A start \in cuts \cup {0} :
                  LET end == CHOOSE e \in cuts \cup {Len(call.text)} :
                                /\ e > start
                                /\ \A f \in cuts \cup {Len(call.text)} : f > start => e <= f
                  IN  /\ lookup_form(model_, call.text, start, end) \in DOMAIN model_.vocab_
                      /\ \A f \in (end + 1)..Len(call.text) :
                            lookup_form(model_, call.text, start, f) \notin DOMAIN model_.vocab_
                      /\ call.ids[Cardinality({c \in cuts : c <= start}) + 1]
                            = model_.vocab_[lookup_form(model_, call.text, start, end)]

\* "aba" on the vocabulary of K_bert, which has "a", "ab" and "##a": the
\* pieces are "ab" and "##a".
LongestPieceTaken ==
    /\ config = [model |-> K_bert.model] /\ call.op = "tokenize"
    /\ call.text = <<97, 98, 97>> /\ call.ids = <<6, 4>>

\* The greedy scan from start meets a position where no slice of at least
\* one byte has its lookup form in the vocabulary.
RECURSIVE no_piece_from(_, _, _)
no_piece_from(m, text, start) ==
    /\ start < Len(text)
    /\ LET ends == {e \in (start + 1)..Len(text) :
                       lookup_form(m, text, start, e) \in DOMAIN m.vocab_}
       IN  \/ ends = {}
           \/ no_piece_from(m, text, CHOOSE e \in ends : \A f \in ends : e >= f)

\* C21: a WordPiece model returns the one-element sequence of the unk id, and
\* nothing of the pieces matched before, for a fragment longer than
\* max_input_chars_per_word and for a fragment where the scan meets a
\* position without any piece; both cases return the same value.
WordPieceUnknown ==
    (/\ call.op = "tokenize" /\ model_.kind = "WordPiece" /\ call.text # <<>>
     /\ \/ Len(call.text) > model_.max_input_chars_per_word_
        \/ no_piece_from(model_, call.text, 0)) =>
        call.ids = <<model_.unk_token_id_>>

----------------------------------------------------------------------------
(* The pre-tokenizers alone                                                *)

\* The texts of the successive matches of re in s from offset pos, the
\* empty ones left out.
RECURSIVE matched_slices(_, _, _)
matched_slices(re, s, pos) ==
    IF pos >= Len(s) \/ ~OnigRegex_search(re, s, pos).found THEN <<>>
    ELSE LET m == OnigRegex_search(re, s, pos) IN
         (IF m.match_end > m.match_start
             THEN <<substr(s, m.match_start, m.match_end - m.match_start)>> ELSE <<>>)
         \o matched_slices(re, s, IF m.match_end = m.match_start
                                  THEN m.match_end + 1 ELSE m.match_end)

\* C22: a Split with invert gives the texts of the matches of its pattern in
\* the fragment, in order, and nothing else: nothing for the text between
\* two matches, for the text after the last match, or for a fragment
\* without a match.
SplitInvertOnlyMatches ==
    (call.op = "pre_tokenize" /\ pre_tokenizer_.kind = "Split" /\ pre_tokenizer_.invert_) =>
        call.splits = matched_slices(pre_tokenizer_.regex_, call.text, 0)

\* text with every space replaced by the replacement string rep.
RECURSIVE spaces_replaced(_, _)
spaces_replaced(text, rep) ==
    IF text = <<>> THEN <<>>
    ELSE (IF Head(text) = 32 THEN rep ELSE <<Head(text)>>) \o spaces_replaced(Tail(text), rep)

\* The Metaspace stage the loaded pre-tokenizer is or ends with, and the
\* fragments that reach it.
metaspace_stage ==
    IF pre_tokenizer_.kind = "Sequence" THEN pre_tokenizer_.pts_[Len(pre_tokenizer_.pts_)]
    ELSE pre_tokenizer_

metaspace_input ==
    IF pre_tokenizer_.kind = "Sequence"
        THEN SequencePreTokenizer_pre_tokenize(
                 SubSeq(pre_tokenizer_.pts_, 1, Len(pre_tokenizer_.pts_) - 1), <<call.text>>)
    ELSE <<call.text>>

\* C23: the Metaspace pre-tokenizer puts a space before the first fragment
\* only, when add_prefix_space is set and that fragment does not start with
\* a space; the later fragments get no prefix; then every space of every
\* fragment is replaced by the replacement string.
MetaspacePrefix ==
    (/\ call.op = "pre_tokenize" /\ metaspace_stage.kind = "Metaspace"
     /\ 128 \notin Range(call.text)) =>
        /\ Len(call.splits) = Len(metaspace_input)
        /\ \A k \in 1..Len(call.splits) :
              call.splits[k] =
                 spaces_replaced(
                    IF k = 1 /\ metaspace_stage.add_prefix_space_
                       /\ metaspace_input[1] # <<>> /\ metaspace_input[1][1] # 32
                    THEN <<32>> \o metaspace_input[1] ELSE metaspace_input[k],
                    metaspace_stage.replacement_)

\* C23, amended: the Metaspace pre-tokenizer puts a space before every
\* fragment that is not empty and does not start with a space, when
\* add_prefix_space is set, so that each of them starts with the replacement
\* string; then every space of every fragment of valid UTF-8 is replaced by
\* the replacement string.  The fragments keep their number and order.
MetaspacePrefixEvery ==
    (call.op = "pre_tokenize" /\ metaspace_stage.kind = "Metaspace") =>
        /\ Len(call.splits) = Len(metaspace_input)
        /\ \A k \in 1..Len(call.splits) :
              /\ (/\ metaspace_stage.add_prefix_space_
                  /\ metaspace_input[k] # <<>> /\ metaspace_input[k][1] # 32)
                    => occurs_at(call.splits[k], metaspace_stage.replacement_, 0)
              /\ 128 \notin Range(metaspace_input[k]) =>
                    call.splits[k] =
                       spaces_replaced(
                          IF metaspace_stage.add_prefix_space_
                             /\ metaspace_input[k] # <<>> /\ metaspace_input[k][1] # 32
                          THEN <<32>> \o metaspace_input[k] ELSE metaspace_input[k],
                          metaspace_stage.replacement_)

\* "a b" behind the split on spaces: the fragments "a", " " and "b" reach
\* the Metaspace stage, and "b" gets a prefix as "a" does.
LaterFragmentPrefixed ==
    /\ call.op = "pre_tokenize" /\ pre_tokenizer_.kind = "Sequence"
    /\ call.text = <<97, 32, 98>>
    /\ call.splits = <<str_meta \o <<97>>, str_meta, str_meta \o <<98>>>>

----------------------------------------------------------------------------
(* The decoders alone                                                      *)

\* The string the WordPiece decoder is said to make of tokens from the i-th
\* on, out being the string so far: a continuation token is appended
\* without its prefix; another token is appended after a space, which
\* cleanup leaves out before . , ! ? ' and after a trailing '.
RECURSIVE wordpiece_spaced(_, _, _, _)
wordpiece_spaced(d, tokens, i, out) ==
    IF i > Len(tokens) THEN out
    ELSE LET t == tokens[i] IN
         IF occurs_at(t, d.prefix_, 0)
            THEN wordpiece_spaced(d, tokens, i + 1, out \o SubSeq(t, Len(d.prefix_) + 1, Len(t)))
         ELSE IF i = 1
                 \/ (d.cleanup_ /\ \/ (t # <<>> /\ t[1] \in {46, 44, 33, 63, 39})
                                   \/ (out # <<>> /\ out[Len(out)] = 39))
            THEN wordpiece_spaced(d, tokens, i + 1, out \o t)
         ELSE wordpiece_spaced(d, tokens, i + 1, out \o <<32>> \o t)

\* C24: the WordPiece decoder joins the tokens with a space before every
\* token after the first, a continuation token losing its prefix and that
\* space; the space before a token that starts with . , ! ? or ' and the
\* space after a trailing ' are left out only when cleanup is set.
WordPieceSpacing ==
    (call.op = "decode_tokens" /\ decoder_.kind = "WordPiece") =>
        call.splits = <<wordpiece_spaced(decoder_, call.tokens, 1, <<>>)>>

\* C27: the decode of a Replace decoder, once entered, returns, whatever the
\* decoder the loader built: one whose pattern object has no String key and
\* so became the empty pattern, and one whose content holds its pattern.
DecodeTerminates == (call.op = "replacing") ~> (call.op = "decode_tokens")

----------------------------------------------------------------------------
(* The loader and the byte alphabet                                        *)

\* A ByteLevel component appears in the configuration under key: the
\* component itself, or one of the children it lists.
names_byte_level(key) ==
    /\ key \in DOMAIN config /\ ~is_null(config[key])
    /\ \/ value(config[key], "type", "") = "ByteLevel"
       \/ \E list \in {"pretokenizers", "processors", "decoders"} \cap DOMAIN config[key] :
             \E k \in 1..Len(config[key][list]) :
                value(config[key][list][k], "type", "") = "ByteLevel"

\* The pre-tokenizer chain that was built holds a ByteLevel stage.
chain_has_byte_level ==
    \/ pre_tokenizer_.kind = "ByteLevel"
    \/ /\ pre_tokenizer_.kind = "Sequence"
       /\ \E k \in 1..Len(pre_tokenizer_.pts_) : pre_tokenizer_.pts_[k].kind = "ByteLevel"

\* C25: in a loaded BPE tokenizer the model maps bytes itself exactly when
\* the configuration names a ByteLevel component as pre-tokenizer,
\* post-processor or decoder and the pre-tokenizer chain that was built has
\* no ByteLevel stage; so the bytes of a fragment are never mapped twice.
NoDoubleRemap ==
    (call.op = "load" /\ model_ # Nullptr /\ model_.kind = "BPE") =>
        /\ model_.use_byte_level_ <=>
              /\ \E key \in {"pre_tokenizer", "post_processor", "decoder"} :
                    names_byte_level(key)
              /\ ~chain_has_byte_level
        /\ ~(model_.use_byte_level_ /\ chain_has_byte_level)

\* The byte-level document whose ByteLevel pre-tokenizer is the second stage
\* of a Sequence: the model does not map bytes.
ByteLevelInSequence ==
    /\ config = M_bl_seq /\ call.op = "load"
    /\ chain_has_byte_level /\ ~model_.use_byte_level_

----------------------------------------------------------------------------
(* Threads and the BPE cache                                               *)

\* A thread is in an insertion into cache_ while another thread is in a
\* lookup or an insertion.
unsafe_overlap ==
    /\ call.op = "threads"
    /\ \E t \in Threads, u \in Threads :
          /\ t # u /\ call.threads[t].pc = "insert"
          /\ call.threads[u].pc \in {"find", "insert"}

\* C26: when two threads call encode on one loaded BPE tokenizer, no lookup
\* in the cache overlaps an insertion by the other call, and no two
\* insertions overlap.
CacheAccessSynchronized == ~unsafe_overlap

\* What the code does give: the cache is neither disabled nor synchronized,
\* and the accesses are safe only while the caller lets no call on the
\* tokenizer start during another one: then no lookup or insertion overlaps an insertion,
\* no call faults, and every entry of the cache is what the model computes
\* without it, whichever thread stored it.
CacheAccessConfined ==
    (call.op = "threads" /\ call.confined) =>
        /\ ~unsafe_overlap
        /\ ~call.fault
        /\ \A f \in DOMAIN cache_ : cache_[f] = bpe_compute(model_, f)

\* One thread after the other: both have asked for "ab", the first stored
\* its ids and the second was given them.
SecondThreadHit ==
    /\ call.op = "threads" /\ call.confined
    /\ <<97, 98>> \in DOMAIN cache_
    /\ \A t \in Threads :
          call.threads[t] = [pc |-> "idle", text |-> <<97, 98>>,
                             ids |-> cache_[<<97, 98>>], raced |-> FALSE]

----------------------------------------------------------------------------
(* Split, not inverted, Isolated                                           *)

\* The cursor of the Split loop after the match found from pos.
split_next_pos(re, s, pos) ==
    LET m == OnigRegex_search(re, s, pos) IN
    IF m.match_end = m.match_start THEN m.match_end + 1 ELSE m.match_end

\* The loaded pre-tokenizer is a Split without invert and with behavior
\* Isolated, and it has been given a fragment.
split_isolated_ran ==
    /\ call.op = "pre_tokenize" /\ pre_tokenizer_.kind = "Split"
    /\ ~pre_tokenizer_.invert_ /\ pre_tokenizer_.behavior_ = "Isolated"

\* C28: a Split without invert and with behavior Isolated loses no byte: from
\* every cursor where the pattern is found, also with an empty match, the
\* next cursor is larger, and the fragments it gives for a fragment,
\* concatenated, are that fragment.
SplitIsolatedLossless ==
    split_isolated_ran =>
        /\ \A pos \in 0..(Len(call.text) - 1) :
              OnigRegex_search(pre_tokenizer_.regex_, call.text, pos).found
                  => split_next_pos(pre_tokenizer_.regex_, call.text, pos) > pos
        /\ Concat(call.splits) = call.text

\* The same for the fragments in which the pattern has no empty match before
\* the end: there the claim holds.
SplitIsolatedLosslessNonEmpty ==
    (split_isolated_ran /\ pre_tokenizer_.regex_.kind # "star") => SplitIsolatedLossless

----------------------------------------------------------------------------
(* The model of a loaded tokenizer                                         *)

\* C29: a tokenizer whose load returned true has a model, and no encode on
\* it uses an absent model.
LoadedHasModel ==
    config # json_null => (model_ # Nullptr /\ ~call.fault)

\* The same for the documents that have a "model" object: there the claim
\* holds.
LoadedWithModelObject ==
    (config # json_null /\ contains(config, "model")) => LoadedHasModel

----------------------------------------------------------------------------
(* Digits and Metaspace on bytes that are not UTF-8                        *)

\* C30: the Digits and the Metaspace pre-tokenizer drop no byte of a
\* fragment, also of one with a byte that is not valid UTF-8: the fragments
\* Digits gives, concatenated, are the fragment, and Metaspace gives the
\* whole fragment, with its prefix, with every space replaced.
DigitsMetaspaceLossless ==
    /\ (call.op = "pre_tokenize" /\ pre_tokenizer_.kind = "Digits") =>
          Concat(call.splits) = call.text
    /\ (call.op = "pre_tokenize" /\ pre_tokenizer_.kind = "Metaspace") =>
          Concat(call.splits) =
             spaces_replaced(
                IF pre_tokenizer_.add_prefix_space_
                   /\ call.text # <<>> /\ call.text[1] # 32
                THEN <<32>> \o call.text ELSE call.text,
                pre_tokenizer_.replacement_)

\* The same for the fragments that are valid UTF-8: there the claim holds.
DigitsMetaspaceLosslessValid ==
    128 \notin Range(call.text) => DigitsMetaspaceLossless

====
